---- MODULE Spec2Model ----
(***************************************************************************)
(* Plugin and hook dispatcher of finit (plugin.c), dynamic build (no       *)
(* ENABLE_STATIC): plugin registry, dependency loading, hook dispatch,     *)
(* I/O watcher dispatch and plugin_exit (specification Spec); and the      *)
(* pidfile plugin (plugins/pidfile.c) with the run directory it watches    *)
(* (specification PidSpec); and the TTY list of tty.c, built with          *)
(* FALLBACK_SHELL, with the gettys it starts and stops (specification      *)
(* TtySpec); and the built-in getty reading the login name (specification  *)
(* GettySpec).                                                             *)
(*                                                                         *)
(* C strings are sequences of one-character strings, so that strstr(),     *)
(* basename() and the ".so" suffix test are computed as the code computes  *)
(* them.  NULL is the empty sequence for strings and 0 for list indices.   *)
(* A shared object, and with it the static plugin_t it holds, is           *)
(* identified by a short string such as "pid.so".                          *)
(***************************************************************************)
EXTENDS Integers, Sequences, FiniteSets, TLC

VARIABLES
    pc,         \* position of the daemon: "boot", "readdir", "running",
                \* "exited", "crashed"
    dirents,    \* readdir() order of the plugin directory, fixed at boot
    dir_ok,     \* opendir(PLUGIN_PATH) succeeds
    dirpos,     \* number of directory entries already returned by readdir()
    plugpath,   \* static char *plugpath (NULL until load_plugins sets it)
    plugins,    \* TAILQ plugins: sequence of plugin_t records, head first
    dl,         \* dynamic loader: object -> dlopen() reference count
    fds,        \* open file descriptors of the process
    watcher,    \* object -> uev_t watcher embedded in its plugin_t
    loaded,     \* history: objects in the order their records were inserted
    conds,      \* condition store: names set by cond_set_oneshot()
    fail,       \* load_plugins(): int fail
    init_ret,   \* return value of plugin_init(), -1 while it has not returned
    steps,      \* number of runtime events handled so far
    trace,      \* effects of the last handler, in program order
    svc,        \* service records: state, pid, starting and changed flags
    iw,         \* iw_pidfile: the paths with an inotify watch
    iw_ok,      \* the inotify descriptor of iw_pidfile is open
    dirs,       \* directories that exist below the run directory
    files,      \* pidfiles that exist: path -> pid written into the file
    inq,        \* inotify events queued on the descriptor, oldest first
    nev,        \* number of file system operations so far
    tty_list,   \* LIST tty_list: sequence of tty_node records, head first
    runlevel,   \* int runlevel of finit, 0 during bootstrap
    devs,       \* hot-plugged terminal devices that are present in /dev
    nextpid,    \* pid the next fork() returns
    phase,      \* configuration engine: "boot", "idle" or "parsing"
    hist,       \* history: the names marked and not registered since, the
                \* list tty_mark found, the line each record was registered
                \* from, whether the reload so far re-registered records from
                \* their unchanged lines only, and whether it just ended so
    nops,       \* number of TTY operations so far
    fallback,   \* static pid_t fallback: pid of the fallback shell, 0 if none
    shell,      \* process table: pid of the fallback shell that is alive,
                \* 0 if none
    stdin,      \* getty: what read(STDIN_FILENO) still has to deliver, a
                \* character or "EOF" (read() returns 0 or -1) per call
    logname,    \* getty: char name[logname_len + 1] and the byte of the
                \* stack after it; cell k + 1 is name[k], "" is NUL, "?" is
                \* a byte never written
    np          \* getty: char *np of get_logname(), as offset from name

\* the state of the pidfile plugin and of the file system it watches
pidvars == <<svc, iw, iw_ok, dirs, files, inq, nev>>

\* the state of the plugin loader and dispatcher
plugvars == <<pc, dirents, dir_ok, dirpos, plugpath, plugins, dl, fds, watcher,
              loaded, fail, init_ret, steps>>

\* the state of the TTY subsystem
ttyvars == <<tty_list, runlevel, devs, nextpid, phase, hist, nops, fallback,
             shell>>

\* the state of the built-in getty
gettyvars == <<stdin, logname, np>>

vars == <<pc, dirents, dir_ok, dirpos, plugpath, plugins, dl, fds, watcher,
          loaded, conds, fail, init_ret, steps, trace, svc, iw, iw_ok, dirs,
          files, inq, nev, tty_list, runlevel, devs, nextpid, phase, hist,
          nops, fallback, shell, stdin, logname, np>>

\* the TTY subsystem before any TTY is configured (the plugin and pidfile
\* specifications keep it in this state)
TtyIdle ==
    /\ tty_list = <<>>
    /\ runlevel = 0
    /\ devs = {}
    /\ nextpid = 3
    /\ phase = "boot"
    /\ hist = [marked |-> {}, snap |-> <<>>, pure |-> FALSE, done |-> FALSE,
               conf |-> <<>>]
    /\ nops = 0
    /\ fallback = 0
    /\ shell = 0

\* no getty process (the other specifications keep it so)
GettyIdle ==
    /\ stdin = <<>>
    /\ logname = <<>>
    /\ np = 0

\* ---------------------------------------------------------------- bounds
MaxDir == 3
MaxSteps == 2
MaxFd == 5
MaxEvents == 2
MaxTtyOps == 5
MaxLine == 4
logname_len == 2

\* --------------------------------------------------------------- strings
NULL == <<>>

S_so == <<".", "s", "o">>
S_c == <<".", "c">>
S_slash == <<"/">>

S_net == <<"n", "e", "t">>
S_pid == <<"p", "i", "d">>
S_usb == <<"u", "s", "b">>
S_hot == <<"h", "o", "t">>
S_alt == <<"a", "l", "t">>
S_rtc == <<"r", "t", "c">>
S_nop == <<"n", "o", "p">>
S_bad == <<"b", "a", "d">>
S_dot == <<".">>

\* -DPLUGIN_PATH=\"$(plugindir)\", plugindir ?= $(libdir)/finit/plugins
PLUGIN_PATH ==
    <<"/", "l", "i", "b", "/", "f", "i", "n", "i", "t", "/",
      "p", "l", "u", "g", "i", "n", "s">>

\* strstr(s, sub): index of the first occurrence of sub in s, 0 if none
strstr(s, sub) ==
    LET hits == {i \in 1..(Len(s) - Len(sub) + 1) :
                    SubSeq(s, i, i + Len(sub) - 1) = sub}
    IN  IF hits = {} THEN 0
        ELSE CHOOSE i \in hits : \A j \in hits : i <= j

\* trim_ext(): cut the string at the first ".so", else at the first ".c"
trim_ext(name) ==
    LET so == strstr(name, S_so)
        ptr == IF so = 0 THEN strstr(name, S_c) ELSE so
    IN  IF ptr = 0 THEN name ELSE SubSeq(name, 1, ptr - 1)

\* basename(): the part after the last '/'
basename(path) ==
    LET sl == {i \in 1..Len(path) : path[i] = "/"}
    IN  IF sl = {} THEN path
        ELSE SubSeq(path, (CHOOSE i \in sl : \A j \in sl : j <= i) + 1, Len(path))

\* noext = strcmp(name + strlen(name) - 3, ".so"); names here have >= 3 chars
noext(name) == SubSeq(name, Len(name) - 2, Len(name)) # S_so

\* fisslashdir(): the path ends with '/'
fisslashdir(path) == Len(path) > 0 /\ path[Len(path)] = "/"

\* ------------------------------------------------------------ hook points
\* hook_point_t (plugin.h): HOOK_TYPES in declaration order, numbered from 0
HOOK_TYPES ==
    <<"HOOK_BANNER", "HOOK_ROOTFS_UP", "HOOK_MOUNT_ERROR", "HOOK_MOUNT_POST",
      "HOOK_BASEFS_UP", "HOOK_NETWORK_UP", "HOOK_SVC_RECONF", "HOOK_SHUTDOWN">>

HookNo(h) == (CHOOSE i \in 1..Len(HOOK_TYPES) : HOOK_TYPES[i] = h) - 1
HookPoints == 0..(Len(HOOK_TYPES) - 1)

HOOK_BANNER == HookNo("HOOK_BANNER")
HOOK_MOUNT_ERROR == HookNo("HOOK_MOUNT_ERROR")
HOOK_BASEFS_UP == HookNo("HOOK_BASEFS_UP")
HOOK_NETWORK_UP == HookNo("HOOK_NETWORK_UP")
HOOK_SVC_RECONF == HookNo("HOOK_SVC_RECONF")
HOOK_SHUTDOWN == HookNo("HOOK_SHUTDOWN")

\* hook_cond[no]: the condition name of a hook point
hook_cond(no) == HOOK_TYPES[no + 1]

\* ------------------------------------------------- shared objects on disk
\* What the static plugin_t of each object in the plugin directory holds and
\* what its constructor does.  file: d_name; name: .name (NULL: derived from
\* dladdr); hook: hook points with a callback; io: the constructor opens a
\* descriptor and sets io.cb (as PLUGIN_INIT of pidfile.c); ctor: the
\* constructor calls plugin_register().
Objects ==
    { [id |-> "net.so", name |-> NULL, ctor |-> TRUE, io |-> TRUE,
       hook |-> {HOOK_NETWORK_UP, HOOK_SVC_RECONF}, depends |-> <<>>],
      \* pidfile.c: .name = __FILE__, .depends = { "netlink" }
      [id |-> "pid.so", name |-> S_pid \o S_c, ctor |-> TRUE, io |-> TRUE,
       hook |-> {HOOK_BASEFS_UP, HOOK_SVC_RECONF}, depends |-> <<S_net>>],
      \* depends on an object that is not installed
      [id |-> "usb.so", name |-> NULL, ctor |-> TRUE, io |-> FALSE,
       hook |-> {HOOK_BANNER, HOOK_MOUNT_ERROR}, depends |-> <<S_hot>>],
      [id |-> "rtc.so", name |-> S_rtc \o S_c, ctor |-> TRUE, io |-> FALSE,
       hook |-> {HOOK_BASEFS_UP, HOOK_SHUTDOWN}, depends |-> <<S_alt>>],
      \* carries the .name of rtc
      [id |-> "alt.so", name |-> S_rtc, ctor |-> TRUE, io |-> FALSE,
       hook |-> {HOOK_BASEFS_UP}, depends |-> <<>>],
      \* a shared object without plugin constructor
      [id |-> "nop.so", name |-> NULL, ctor |-> FALSE, io |-> FALSE,
       hook |-> {}, depends |-> <<>>] }

ObjIds == {o.id : o \in Objects}
ObjOf(id) == CHOOSE o \in Objects : o.id = id

\* d_name of the entries readdir() may return: the objects, a file dlopen()
\* rejects, and "."
d_name ==
    ("net.so" :> S_net \o S_so) @@ ("pid.so" :> S_pid \o S_so) @@
    ("usb.so" :> S_usb \o S_so) @@ ("rtc.so" :> S_rtc \o S_so) @@
    ("alt.so" :> S_alt \o S_so) @@ ("nop.so" :> S_nop \o S_so) @@
    ("bad.so" :> S_bad \o S_so) @@ ("." :> S_dot)

DirNames == DOMAIN d_name \ {"."}

\* snprintf(sofile, "%s/%s%s", path, name, noext ? ".so" : "")
SoFile(path, name) == path \o S_slash \o name \o (IF noext(name) THEN S_so ELSE <<>>)

\* the object dlopen(sofile) maps, "" when dlopen() fails: the file must be
\* in the plugin directory and be a shared object
dlopen(sofile) ==
    LET hit == {id \in ObjIds :
                  /\ \E k \in 1..Len(dirents) : dirents[k] = id
                  /\ SoFile(PLUGIN_PATH, d_name[id]) = sofile}
    IN  IF hit = {} THEN "" ELSE CHOOSE id \in hit : TRUE

\* dli_fname dladdr() reports for the plugin_t of an object
dli_fname(id) == SoFile(PLUGIN_PATH, d_name[id])

\* ------------------------------------------------------------- the trace
\* One effect: who is the object concerned, name a string argument, no a hook
\* point, fd a descriptor, ret a return value; flag, pre and post are set by
\* plugin_register() (name found, registry before and after) and by the
\* watcher events (watcher active); mask is the mask of an inotify event.
Ev(op, who, no, fd, ret) ==
    [op |-> op, who |-> who, name |-> NULL, no |-> no, fd |-> fd, ret |-> ret,
     flag |-> FALSE, pre |-> <<>>, post |-> <<>>, mask |-> {}]

RegObjs(list) == [i \in 1..Len(list) |-> list[i].obj]

\* ---------------------------------------------------------- the registry
\* SEARCH_PLUGIN(str): index of the first plugin whose name equals str, 0 if none
SEARCH_PLUGIN(list, str) ==
    LET hits == {i \in 1..Len(list) : list[i].name = str}
    IN  IF hits = {} THEN 0
        ELSE CHOOSE i \in hits : \A j \in hits : i <= j

\* plugin_find(): exact match, then plugpath/name[.so]; 0 is NULL
plugin_find(list, pp, name) ==
    IF name = NULL THEN 0
    ELSE LET exact == SEARCH_PLUGIN(list, name)
         IN  IF exact # 0 THEN exact
             ELSE IF pp # NULL /\ name[1] # "/"
                  THEN SEARCH_PLUGIN(list,
                           pp \o (IF fisslashdir(pp) THEN <<>> ELSE S_slash)
                              \o name \o (IF noext(name) THEN S_so ELSE <<>>))
                  ELSE 0

\* is_io_plugin(p)
is_io_plugin(p) == p.io.cb /\ p.io.fd > 0

\* lowest unused descriptor, -1 if the table is full
LowestFd(open) ==
    LET free == (0..MaxFd) \ open
    IN  IF free = {} THEN -1 ELSE CHOOSE f \in free : \A g \in free : f <= g

\* ------------------------------------------------------------ the loader
\* The operators below thread the record
\*   st = [plugins, loaded, dl, fds, trace, ret]
\* through nested calls: dlopen() runs the object's constructor, which calls
\* plugin_register(), which may call load_one() again for a dependency.
RECURSIVE load_one(_, _, _)
RECURSIVE plugin_register(_, _)
RECURSIVE check_plugin_depends(_, _, _)
RECURSIVE PLUGIN_INIT(_, _)

\* mutant: TAILQ_INSERT_HEAD instead of TAILQ_INSERT_TAIL
TAILQ_INSERT_HEAD(list, plugin) == <<plugin>> \o list

\* TAILQ_INSERT_TAIL(&plugins, plugin, link)
TAILQ_INSERT_TAIL(list, plugin) == Append(list, plugin)

\* the name plugin_register() gives the record: .name, else the basename of
\* dladdr()'s dli_fname, else "unknown"; then trim_ext(strdup(name))
RegName(plugin) ==
    LET dflt == basename(dli_fname(plugin.obj))
        name == IF plugin.name # NULL THEN plugin.name
                ELSE IF dflt # NULL THEN dflt
                ELSE <<"u", "n", "k", "n", "o", "w", "n">>
    IN  trim_ext(name)

\* mutant: a plugin with a dependency that is still missing after
\* check_plugin_depends() is not inserted
plugin_register_strict(st, plugin) ==
    LET name == RegName(plugin)
        pre  == RegObjs(st.plugins)
    IN  IF plugin_find(st.plugins, plugpath, name) # 0
        THEN [st EXCEPT !.ret = 0,
                        !.trace = Append(@, [Ev("plugin_register", plugin.obj, -1, -1, 0)
                                               EXCEPT !.flag = TRUE, !.pre = pre,
                                                      !.name = name,
                                                      !.post = RegObjs(st.plugins)])]
        ELSE LET st1 == check_plugin_depends(st, plugin, 1)
                 unmet == \E d \in 1..Len(plugin.depends) :
                            plugin_find(st1.plugins, plugpath, plugin.depends[d]) = 0
                 st2 == IF unmet THEN st1
                        ELSE [st1 EXCEPT !.plugins =
                                TAILQ_INSERT_TAIL(@, [plugin EXCEPT !.name = name]),
                                         !.loaded = Append(@, plugin.obj)]
             IN  [st2 EXCEPT !.ret = IF unmet THEN 1 ELSE 0,
                             !.trace = Append(@, [Ev("plugin_register", plugin.obj, -1, -1,
                                                     IF unmet THEN 1 ELSE 0)
                                                    EXCEPT !.pre = pre, !.name = name,
                                                           !.post = RegObjs(st2.plugins)])]

\* mutant: the record is inserted before its dependencies are loaded
plugin_register_insert_first(st, plugin) ==
    LET name == RegName(plugin)
        pre  == RegObjs(st.plugins)
    IN  IF plugin_find(st.plugins, plugpath, name) # 0
        THEN [st EXCEPT !.ret = 0,
                        !.trace = Append(@, [Ev("plugin_register", plugin.obj, -1, -1, 0)
                                               EXCEPT !.flag = TRUE, !.pre = pre,
                                                      !.name = name,
                                                      !.post = RegObjs(st.plugins)])]
        ELSE LET st1 == [st EXCEPT !.plugins =
                            TAILQ_INSERT_TAIL(@, [plugin EXCEPT !.name = name]),
                                   !.loaded = Append(@, plugin.obj)]
                 st2 == check_plugin_depends(st1, plugin, 1)
             IN  [st2 EXCEPT !.ret = 0,
                             !.trace = Append(@, [Ev("plugin_register", plugin.obj, -1, -1, 0)
                                                    EXCEPT !.pre = pre, !.name = name,
                                                           !.post = RegObjs(st2.plugins)])]

plugin_register(st, plugin) ==
    LET name == RegName(plugin)
        pre  == RegObjs(st.plugins)
    IN  IF plugin_find(st.plugins, plugpath, name) # 0
        THEN \* already registered
             [st EXCEPT !.ret = 0,
                        !.trace = Append(@, [Ev("plugin_register", plugin.obj, -1, -1, 0)
                                               EXCEPT !.flag = TRUE, !.pre = pre,
                                                      !.name = name,
                                                      !.post = RegObjs(st.plugins)])]
        ELSE LET st1 == check_plugin_depends(st, plugin, 1)
                 st2 == [st1 EXCEPT !.plugins =
                            TAILQ_INSERT_TAIL(@, [plugin EXCEPT !.name = name]),
                                    !.loaded = Append(@, plugin.obj)]
             IN  [st2 EXCEPT !.ret = 0,
                             !.trace = Append(@, [Ev("plugin_register", plugin.obj, -1, -1, 0)
                                                    EXCEPT !.pre = pre, !.name = name,
                                                           !.post = RegObjs(st2.plugins)])]

\* for (i = 0; i < PLUGIN_DEP_MAX && plugin->depends[i]; i++), from index i
check_plugin_depends(st, plugin, i) ==
    IF i > Len(plugin.depends) THEN st
    ELSE IF plugin_find(st.plugins, plugpath, plugin.depends[i]) # 0
         THEN check_plugin_depends(st, plugin, i + 1)
         ELSE check_plugin_depends(load_one(st, plugpath, plugin.depends[i]),
                                   plugin, i + 1)

\* the constructor dlopen() runs on first load (PLUGIN_INIT of pidfile.c):
\* an I/O plugin opens its descriptor and returns without registering when
\* that fails
PLUGIN_INIT(st, id) ==
    LET o    == ObjOf(id)
        fd   == LowestFd(st.fds)
        rec  == [obj |-> id, name |-> o.name, hook |-> o.hook,
                 io |-> [cb |-> FALSE, fd |-> 0], depends |-> o.depends,
                 handle |-> ""]
    IN  IF ~o.ctor THEN st
        ELSE IF ~o.io THEN plugin_register(st, rec)
        ELSE IF fd < 0 THEN st
        ELSE plugin_register([st EXCEPT !.fds = @ \cup {fd}],
                             [rec EXCEPT !.io = [cb |-> TRUE, fd |-> fd]])

\* load_one(path, name); path is a directory whenever it is not NULL
load_one(st, path, name) ==
    IF path = NULL \/ name = NULL
    THEN [st EXCEPT !.ret = 1,
                    !.trace = Append(@, [Ev("load_one", "", -1, -1, 1)
                                           EXCEPT !.name = name])]
    ELSE
    LET handle == dlopen(SoFile(path, name))
    IN  IF handle = ""
        THEN [st EXCEPT !.ret = 1,
                        !.trace = Append(@, [Ev("load_one", "", -1, -1, 1)
                                               EXCEPT !.name = name])]
        ELSE LET opened == [st EXCEPT !.dl[handle] = @ + 1]
                 \* the constructor runs when the object is first mapped
                 st1 == IF st.dl[handle] = 0 THEN PLUGIN_INIT(opened, handle)
                        ELSE opened
                 last == Len(st1.plugins)
             IN  IF last = 0
                 THEN \* nothing registered: dlclose(handle)
                      [st1 EXCEPT !.dl[handle] = @ - 1, !.ret = 1,
                           !.trace = Append(@, [Ev("load_one", handle, -1, -1, 1)
                                                  EXCEPT !.name = name])]
                 ELSE \* plugin = TAILQ_LAST(&plugins); plugin->handle = handle
                      [st1 EXCEPT !.plugins[last].handle = handle, !.ret = 0,
                           !.trace = Append(@, [Ev("load_one", handle, -1, -1, 0)
                                                  EXCEPT !.name = name])]

\* ------------------------------------------------------- libuEv watchers
\* uev_io_stop(w): a no-op on an inactive watcher, else epoll_ctl(DEL)
uev_io_stop(w) == [w EXCEPT !.active = FALSE]

\* _uev_watcher_start(): fails on fd < 0 and when epoll_ctl(ADD) rejects a
\* descriptor that is not open
uev_can_start(fd, open) == fd >= 0 /\ fd \in open

\* uev_io_set(w, fd, events) without UEV_ONESHOT: stop, re-init with fd, start
uev_io_set(w, fd, open) == [fd |-> fd, active |-> uev_can_start(fd, open)]

\* uev_io_init(ctx, w, cb, arg, fd, events): init with fd, start
uev_io_init(w, fd, open) == [fd |-> fd, active |-> uev_can_start(fd, open)]

\* ----------------------------------------------------------- plugin_init
RECURSIVE InjSeqs(_, _)
InjSeqs(S, n) ==
    IF n = 0 THEN {<<>>}
    ELSE {<<>>} \cup UNION {{<<x>> \o t : t \in InjSeqs(S \ {x}, n - 1)} : x \in S}

Init ==
    /\ pc = "boot"
    /\ dir_ok \in BOOLEAN
    /\ dirents \in IF dir_ok THEN {<<".">> \o t : t \in InjSeqs(DirNames, MaxDir)}
                   ELSE {<<>>}
    /\ dirpos = 0
    /\ plugpath = NULL
    /\ plugins = <<>>
    /\ loaded = <<>>
    /\ dl = [o \in ObjIds |-> 0]
    /\ fds = {0, 1, 2}
    /\ watcher = [o \in ObjIds |-> [fd |-> -1, active |-> FALSE]]
    /\ conds = {}
    /\ fail = 0
    /\ init_ret = -1
    /\ steps = 0
    /\ trace = <<>>
    /\ svc = [s \in {} |-> 0]
    /\ iw = {}
    /\ iw_ok = FALSE
    /\ dirs = {}
    /\ files = <<>>
    /\ inq = <<>>
    /\ nev = 0
    /\ TtyIdle
    /\ GettyIdle

\* plugin_init() calls load_plugins(PLUGIN_PATH): opendir(); on failure
\* load_plugins() returns 1 and plugin_init() returns 1
LoadPluginsOpen ==
    /\ pc = "boot"
    /\ IF dir_ok
       THEN /\ plugpath' = PLUGIN_PATH
            /\ pc' = "readdir"
            /\ UNCHANGED init_ret
       ELSE /\ pc' = "running"
            /\ init_ret' = 1
            /\ UNCHANGED plugpath
    /\ trace' = <<>>
    /\ UNCHANGED pidvars /\ UNCHANGED ttyvars /\ UNCHANGED gettyvars
    /\ UNCHANGED <<dirents, dir_ok, dirpos, plugins, loaded, dl, fds, watcher,
                   conds, fail, steps>>

\* one iteration of while ((entry = readdir(dp))) in load_plugins() with the
\* failure count so far: entries starting with '.' are skipped, a failed
\* load_one() is counted in ret
\* mutant: the loop is left at the first failure
load_plugins_entry_abort(st, entry, nfail) ==
    IF entry[1] = "." \/ nfail > 0 THEN [st EXCEPT !.ret = nfail]
    ELSE LET r == load_one(st, PLUGIN_PATH, entry)
         IN  [r EXCEPT !.ret = IF r.ret # 0 THEN nfail + 1 ELSE nfail]

load_plugins_entry(st, entry, nfail) ==
    IF entry[1] = "." THEN [st EXCEPT !.ret = nfail]
    ELSE LET r == load_one(st, PLUGIN_PATH, entry)
         IN  [r EXCEPT !.ret = IF r.ret # 0 THEN nfail + 1 ELSE nfail]

LoadPluginsEntry ==
    /\ pc = "readdir"
    /\ dirpos < Len(dirents)
    /\ LET st == load_plugins_entry(
                     [plugins |-> plugins, loaded |-> loaded, dl |-> dl,
                      fds |-> fds, trace |-> <<>>, ret |-> 0],
                     d_name[dirents[dirpos + 1]], fail)
       IN  /\ plugins' = st.plugins
           /\ loaded' = st.loaded
           /\ dl' = st.dl
           /\ fds' = st.fds
           /\ trace' = st.trace
           /\ fail' = st.ret
    /\ dirpos' = dirpos + 1
    /\ UNCHANGED pidvars /\ UNCHANGED ttyvars /\ UNCHANGED gettyvars
    /\ UNCHANGED <<pc, dirents, dir_ok, plugpath, watcher, conds, init_ret, steps>>

\* plugin_io_init(p) for the plugins from index i on, as init_plugins() loops;
\* w is the watcher table, the result adds the number of failures
RECURSIVE init_plugins(_, _, _, _)
init_plugins(list, i, w, nfail) ==
    IF i > Len(list) THEN [watcher |-> w, fail |-> nfail]
    ELSE LET p == list[i]
         IN  IF ~is_io_plugin(p) THEN init_plugins(list, i + 1, w, nfail)
             ELSE LET nw == uev_io_init(w[p.obj], p.io.fd, fds)
                  IN  init_plugins(list, i + 1, [w EXCEPT ![p.obj] = nw],
                                   IF nw.active THEN nfail ELSE nfail + 1)

\* readdir() returns NULL: closedir(), load_plugins() returns fail, and
\* plugin_init() runs init_plugins() only if no load failed
LoadPluginsDone ==
    /\ pc = "readdir"
    /\ dirpos = Len(dirents)
    /\ IF fail = 0
       THEN LET r == init_plugins(plugins, 1, watcher, 0)
            IN  /\ watcher' = r.watcher
                /\ init_ret' = r.fail
       ELSE /\ init_ret' = 1
            /\ UNCHANGED watcher
    /\ pc' = "running"
    /\ trace' = <<>>
    /\ UNCHANGED pidvars /\ UNCHANGED ttyvars /\ UNCHANGED gettyvars
    /\ UNCHANGED <<dirents, dir_ok, dirpos, plugpath, plugins, loaded, dl, fds,
                   conds, fail, steps>>

\* ------------------------------------------------------- plugin_run_hook
\* PLUGIN_ITERATOR over the registry from index i: one call per plugin with
\* a callback at hook point no
RECURSIVE HookCalls(_, _, _)
HookCalls(list, no, i) ==
    IF i > Len(list) THEN <<>>
    ELSE (IF no \in list[i].hook THEN <<Ev("hook_cb", list[i].obj, no, -1, 0)>>
          ELSE <<>>) \o HookCalls(list, no, i + 1)

\* mutant: the loop leaves after the first callback
plugin_run_hook_break(list, no, cs) ==
    LET signal == no >= HOOK_MOUNT_ERROR
        calls == HookCalls(list, no, 1)
    IN  [trace |-> (IF calls = <<>> THEN <<>> ELSE <<calls[1]>>)
                   \o (IF signal THEN <<Ev("cond_set_oneshot", "", no, -1, 0)>>
                       ELSE <<>>)
                   \o <<Ev("service_step_all", "", no, -1, 0)>>,
         conds |-> IF signal THEN cs \cup {hook_cond(no)} ELSE cs]

\* mutant: the condition is set for every hook point
plugin_run_hook_always(list, no, cs) ==
    [trace |-> HookCalls(list, no, 1)
               \o <<Ev("cond_set_oneshot", "", no, -1, 0)>>
               \o <<Ev("service_step_all", "", no, -1, 0)>>,
     conds |-> cs \cup {hook_cond(no)}]

\* mutant: the condition is set before the callbacks run
plugin_run_hook_early(list, no, cs) ==
    LET signal == no >= HOOK_MOUNT_ERROR
    IN  [trace |-> (IF signal THEN <<Ev("cond_set_oneshot", "", no, -1, 0)>>
                    ELSE <<>>)
                   \o HookCalls(list, no, 1)
                   \o <<Ev("service_step_all", "", no, -1, 0)>>,
         conds |-> IF signal THEN cs \cup {hook_cond(no)} ELSE cs]

\* plugin_run_hook(no, arg): the effects in program order and the condition
\* store afterwards (the argument handed to the callbacks is not modelled)
plugin_run_hook(list, no, cs) ==
    LET signal == no >= HOOK_MOUNT_ERROR
    IN  [trace |-> HookCalls(list, no, 1)
                   \o (IF signal THEN <<Ev("cond_set_oneshot", "", no, -1, 0)>>
                       ELSE <<>>)
                   \o <<Ev("service_step_all", "", no, -1, 0)>>,
         conds |-> IF signal THEN cs \cup {hook_cond(no)} ELSE cs]

RunHook(no) ==
    /\ pc = "running"
    /\ steps < MaxSteps
    /\ LET r == plugin_run_hook(plugins, no, conds)
       IN  /\ trace' = r.trace
           /\ conds' = r.conds
    /\ steps' = steps + 1
    /\ UNCHANGED pidvars /\ UNCHANGED ttyvars /\ UNCHANGED gettyvars
    /\ UNCHANGED <<pc, dirents, dir_ok, dirpos, plugpath, plugins, loaded, dl, fds,
                   watcher, fail, init_ret>>

\* --------------------------------------------------------- generic_io_cb
\* What a plugin's io.cb may do with its descriptor: nothing ("ok", or "fail"
\* on an error), close it and open the replacement ("reopen"), open the
\* replacement first ("open_close"), close it and store -1 ("close"), or
\* close it and leave the stale number in the record ("close_stale").
IoOutcomes == {"ok", "fail", "reopen", "open_close", "close", "close_stale"}

io_cb(fd, open, outcome) ==
    CASE outcome = "reopen" ->
           LET n == LowestFd(open \ {fd})
           IN  [fd |-> n, fds |-> (open \ {fd}) \cup {n}]
      [] outcome = "open_close" ->
           LET n == LowestFd(open)
           IN  IF n < 0 THEN [fd |-> fd, fds |-> open]
               ELSE [fd |-> n, fds |-> (open \cup {n}) \ {fd}]
      [] outcome = "close" -> [fd |-> -1, fds |-> open \ {fd}]
      [] outcome = "close_stale" -> [fd |-> fd, fds |-> open \ {fd}]
      [] OTHER -> [fd |-> fd, fds |-> open]

\* mutant: the watcher is left running while the callback executes
generic_io_cb_nostop(list, i, w, open, outcome) ==
    LET p == list[i]
    IN  IF is_io_plugin(p) /\ p.io.fd = w.fd
        THEN LET cb == io_cb(w.fd, open, outcome)
                 set == uev_io_set(w, cb.fd, cb.fds)
             IN  [plugins |-> [list EXCEPT ![i].io.fd = cb.fd],
                  fds |-> cb.fds,
                  watcher |-> set,
                  trace |-> << [Ev("io_cb", p.obj, -1, w.fd,
                                   IF outcome = "fail" THEN 1 ELSE 0)
                                  EXCEPT !.flag = w.active],
                               [Ev("uev_io_set", p.obj, -1, cb.fd,
                                   IF set.active THEN 0 ELSE -1)
                                  EXCEPT !.flag = set.active] >>]
        ELSE [plugins |-> list, fds |-> open, watcher |-> w, trace |-> <<>>]

\* mutant: the watcher is re-armed on w->fd, not on the record's descriptor
generic_io_cb_oldfd(list, i, w, open, outcome) ==
    LET p == list[i]
    IN  IF is_io_plugin(p) /\ p.io.fd = w.fd
        THEN LET stopped == uev_io_stop(w)
                 cb == io_cb(w.fd, open, outcome)
                 set == uev_io_set(stopped, w.fd, cb.fds)
             IN  [plugins |-> [list EXCEPT ![i].io.fd = cb.fd],
                  fds |-> cb.fds,
                  watcher |-> set,
                  trace |-> << Ev("uev_io_stop", p.obj, -1, w.fd, 0),
                               [Ev("io_cb", p.obj, -1, w.fd,
                                   IF outcome = "fail" THEN 1 ELSE 0)
                                  EXCEPT !.flag = stopped.active],
                               [Ev("uev_io_set", p.obj, -1, w.fd,
                                   IF set.active THEN 0 ELSE -1)
                                  EXCEPT !.flag = set.active] >>]
        ELSE [plugins |-> list, fds |-> open, watcher |-> w, trace |-> <<>>]

\* mutant: the watcher is not re-armed after the callback
generic_io_cb_norearm(list, i, w, open, outcome) ==
    LET p == list[i]
    IN  IF is_io_plugin(p) /\ p.io.fd = w.fd
        THEN LET stopped == uev_io_stop(w)
                 cb == io_cb(w.fd, open, outcome)
             IN  [plugins |-> [list EXCEPT ![i].io.fd = cb.fd],
                  fds |-> cb.fds,
                  watcher |-> stopped,
                  trace |-> << Ev("uev_io_stop", p.obj, -1, w.fd, 0),
                               [Ev("io_cb", p.obj, -1, w.fd,
                                   IF outcome = "fail" THEN 1 ELSE 0)
                                  EXCEPT !.flag = stopped.active] >>]
        ELSE [plugins |-> list, fds |-> open, watcher |-> w, trace |-> <<>>]

\* generic_io_cb(w, arg, events) with arg = plugin i of the registry
generic_io_cb(list, i, w, open, outcome) ==
    LET p == list[i]
    IN  IF is_io_plugin(p) /\ p.io.fd = w.fd
        THEN LET stopped == uev_io_stop(w)
                 cb == io_cb(w.fd, open, outcome)
                 set == uev_io_set(stopped, cb.fd, cb.fds)
             IN  [plugins |-> [list EXCEPT ![i].io.fd = cb.fd],
                  fds |-> cb.fds,
                  watcher |-> set,
                  trace |-> << Ev("uev_io_stop", p.obj, -1, w.fd, 0),
                               [Ev("io_cb", p.obj, -1, w.fd,
                                   IF outcome = "fail" THEN 1 ELSE 0)
                                  EXCEPT !.flag = stopped.active],
                               [Ev("uev_io_set", p.obj, -1, cb.fd,
                                   IF set.active THEN 0 ELSE -1)
                                  EXCEPT !.flag = set.active] >>]
        ELSE [plugins |-> list, fds |-> open, watcher |-> w, trace |-> <<>>]

\* the event loop finds the descriptor of an active watcher ready
IoDispatch(o, outcome) ==
    /\ pc = "running"
    /\ steps < MaxSteps
    /\ watcher[o].active
    /\ watcher[o].fd \in fds
    /\ \E i \in 1..Len(plugins) :
         /\ plugins[i].obj = o
         /\ LET r == generic_io_cb(plugins, i, watcher[o], fds, outcome)
            IN  /\ plugins' = r.plugins
                /\ fds' = r.fds
                /\ watcher' = [watcher EXCEPT ![o] = r.watcher]
                /\ trace' = r.trace
    /\ steps' = steps + 1
    /\ UNCHANGED pidvars /\ UNCHANGED ttyvars /\ UNCHANGED gettyvars
    /\ UNCHANGED <<pc, dirents, dir_ok, dirpos, plugpath, loaded, dl, conds, fail,
                   init_ret>>

\* ----------------------------------------------------------- plugin_exit
\* What the build can do when plugin_unregister() runs TAILQ_REMOVE and
\* free() on a plugin_t that was never inserted (undefined behaviour): the
\* process dies, or the call leaves the registry as it is.
UBOutcomes == {"segv", "none"}

\* plugin_unregister(&plugin) as the destructor of object id calls it
\* (PLUGIN_EXIT of pidfile.c: iwatch_exit() closes the descriptor first);
\* xs = [plugins, dl, fds, watcher, trace, crashed]
plugin_unregister(xs, id, ub) ==
    LET i == IF \E k \in 1..Len(xs.plugins) : xs.plugins[k].obj = id
             THEN CHOOSE k \in 1..Len(xs.plugins) : xs.plugins[k].obj = id
             ELSE 0
    IN  IF i = 0
        THEN [xs EXCEPT !.crashed = (ub = "segv"),
                        !.trace = Append(@, Ev("plugin_unregister", id, -1, -1, -1))]
        ELSE LET p == xs.plugins[i]
             IN  [xs EXCEPT
                    !.fds = IF p.io.cb THEN @ \ {p.io.fd} ELSE @,
                    !.watcher[id] = IF is_io_plugin(p) THEN uev_io_stop(@) ELSE @,
                    !.plugins = SubSeq(@, 1, i - 1) \o SubSeq(@, i + 1, Len(@)),
                    !.trace = Append(@, Ev("plugin_unregister", id, -1, p.io.fd, 0))]

\* dlclose(handle): fails on a handle that is not open; the last reference
\* unmaps the object and runs its destructor
dlclose(xs, handle, ub) ==
    IF handle \notin ObjIds \/ xs.dl[handle] = 0
    THEN [xs EXCEPT !.trace = Append(@, Ev("dlclose", handle, -1, -1, 1))]
    ELSE LET x1 == [xs EXCEPT !.dl[handle] = @ - 1,
                              !.trace = Append(@, Ev("dlclose", handle, -1, -1, 0))]
         IN  IF x1.dl[handle] = 0 /\ ObjOf(handle).ctor
             THEN plugin_unregister(x1, handle, ub)
             ELSE x1

\* PLUGIN_ITERATOR(p, tmp) { dlclose(p->handle) } over the objects todo, the
\* snapshot of the registry taken as the safe iterator walks it
RECURSIVE plugin_exit(_, _, _)
plugin_exit(xs, todo, ub) ==
    IF todo = <<>> \/ xs.crashed THEN xs
    ELSE LET i == IF \E k \in 1..Len(xs.plugins) : xs.plugins[k].obj = Head(todo)
                  THEN CHOOSE k \in 1..Len(xs.plugins) : xs.plugins[k].obj = Head(todo)
                  ELSE 0
         IN  IF i = 0
             THEN \* tmp was removed and unmapped by the previous dlclose()
                  IF ub = "segv" THEN [xs EXCEPT !.crashed = TRUE]
                  ELSE plugin_exit(xs, Tail(todo), ub)
             ELSE plugin_exit(dlclose(xs, xs.plugins[i].handle, ub), Tail(todo), ub)

\* the shutdown path calls plugin_exit()
PluginExit(ub) ==
    /\ pc = "running"
    /\ steps < MaxSteps
    /\ LET r == plugin_exit([plugins |-> plugins, dl |-> dl, fds |-> fds,
                             watcher |-> watcher, trace |-> <<>>,
                             crashed |-> FALSE],
                            RegObjs(plugins), ub)
       IN  /\ plugins' = r.plugins
           /\ dl' = r.dl
           /\ fds' = r.fds
           /\ watcher' = r.watcher
           /\ trace' = r.trace
           /\ pc' = IF r.crashed THEN "crashed" ELSE "exited"
    /\ steps' = steps + 1
    /\ UNCHANGED pidvars /\ UNCHANGED ttyvars /\ UNCHANGED gettyvars
    /\ UNCHANGED <<dirents, dir_ok, dirpos, plugpath, loaded, conds, fail,
                   init_ret>>

Next ==
    \/ LoadPluginsOpen
    \/ LoadPluginsEntry
    \/ LoadPluginsDone
    \/ \E no \in HookPoints : RunHook(no)
    \/ \E o \in ObjIds, outcome \in IoOutcomes : IoDispatch(o, outcome)
    \/ \E ub \in UBOutcomes : PluginExit(ub)

Spec == Init /\ [][Next]_vars

\* ======================================================== pidfile plugin
\* The pidfile plugin (plugins/pidfile.c) on its own: its callbacks as the
\* dispatcher invokes them, the services it looks up and the run directory
\* it watches.
P_run == <<"/", "r", "u", "n">>
S_run_slash == <<"r", "u", "n", "/">>
S_dotpid == <<".", "p", "i", "d">>
S_slashpid == <<"/", "p", "i", "d">>
N_a == <<"a">>
N_b == <<"b">>
N_foo_pid == <<"f", "o", "o", ".", "p", "i", "d">>
N_note == <<"n", "o", "t", "e">>

\* snprintf(buf, "%s/%s", dir, name)
Join(dir, name) == dir \o S_slash \o name

\* strchr(s + from - 1, c): index of the first c at or after from, 0 if none
strchr(s, from, c) ==
    LET hits == {i \in from..Len(s) : s[i] = c}
    IN  IF hits = {} THEN 0
        ELSE CHOOSE i \in hits : \A j \in hits : i <= j

EndsWith(s, suffix) ==
    Len(s) >= Len(suffix) /\ SubSeq(s, Len(s) - Len(suffix) + 1, Len(s)) = suffix

\* !fnmatch("*\\.pid", fn, 0) || !fnmatch("*/pid", fn, 0)
IsPidfileName(fn) == EndsWith(fn, S_dotpid) \/ EndsWith(fn, S_slashpid)

\* the inotify bits of an event mask
IN_SET == {"IN_CREATE", "IN_ATTRIB", "IN_MODIFY", "IN_MOVED_TO"}

\* the services of the configuration: pidfile, whether the service forks,
\* and the condition mkcond() gives it
Services ==
    { [id |-> "foo", pidfile |-> Join(P_run, N_foo_pid), forking |-> TRUE,
       cond |-> "pid/foo"],
      [id |-> "bar", pidfile |-> Join(Join(P_run, N_a), S_pid), forking |-> FALSE,
       cond |-> "pid/bar"] }

SvcIds == {s.id : s \in Services}
SvcOf(id) == CHOOSE s \in Services : s.id = id
mkcond(id) == SvcOf(id).cond

\* the states a service record can be in when an event arrives; the fork pid
\* of a started service is ForkPid
ForkPid == 5
SvcInits ==
    { [state |-> "halted",   pid |-> 0,       starting |-> FALSE, changed |-> FALSE],
      [state |-> "running",  pid |-> ForkPid, starting |-> FALSE, changed |-> FALSE],
      [state |-> "running",  pid |-> ForkPid, starting |-> TRUE,  changed |-> FALSE],
      [state |-> "running",  pid |-> ForkPid, starting |-> FALSE, changed |-> TRUE],
      [state |-> "stopping", pid |-> ForkPid, starting |-> FALSE, changed |-> FALSE] }

\* svc_find_by_pidfile(fn): the service whose pidfile is fn, "" if none
svc_find_by_pidfile(fn) ==
    IF \E s \in Services : s.pidfile = fn
    THEN (CHOOSE s \in Services : s.pidfile = fn).id
    ELSE ""

\* pid_file_read(path): the pid in the file, 0 for an empty file, -1 when
\* the file cannot be opened
pid_file_read(fs, path) == IF path \in DOMAIN fs THEN fs[path] ELSE -1

\* directories and files that may come to exist below the run directory
DirUniverse == {Join(P_run, N_a), Join(Join(P_run, N_a), N_b)}
FileUniverse ==
    {Join(P_run, N_foo_pid), Join(Join(P_run, N_a), S_pid), Join(P_run, N_note),
     Join(Join(P_run, N_a), N_foo_pid)}

\* dirname() and basename() of a path of the two universes
DirName(path) ==
    LET sl == {i \in 1..Len(path) : path[i] = "/"}
    IN  SubSeq(path, 1, (CHOOSE i \in sl : \A j \in sl : j <= i) - 1)

\* the pid a daemon writes into its pidfile
DaemonPid == 9

\* a set as a sequence, in some order
RECURSIVE SetToSeq(_)
SetToSeq(S) ==
    IF S = {} THEN <<>>
    ELSE LET x == CHOOSE x \in S : TRUE IN <<x>> \o SetToSeq(S \ {x})

\* gl_pathv after glob("dir/*.pid") and glob("dir/pid", GLOB_APPEND): the full
\* paths of the matching files of dir
Glob(fs, dir) ==
    SetToSeq({f \in DOMAIN fs : DirName(f) = dir /\ EndsWith(f, S_dotpid)})
      \o SetToSeq({f \in DOMAIN fs : f = Join(dir, S_pid)})

\* The operators below thread the record
\*   ps = [svc, conds, iw, iw_ok, trace, ret]
\* through the calls of one callback of the plugin.

\* iwatch_add(iw, path, IN_ONLYDIR): inotify_add_watch() on an existing
\* directory, the path joins the watch list
iwatch_add(ps, path) ==
    IF ps.iw_ok /\ path \in dirs
    THEN [ps EXCEPT !.iw = @ \cup {path}, !.ret = 0]
    ELSE [ps EXCEPT !.ret = -1]

\* iwatch_exit(iw): every watch is dropped and the descriptor closed
iwatch_exit(ps) == [ps EXCEPT !.iw = {}, !.iw_ok = FALSE]

\* mutant: the second strchr() starts behind the first slash
pidfile_add_path_deeper(ps, path) ==
    LET ptr == strstr(path, S_run_slash)
        slash1 == IF ptr = 0 THEN 0 ELSE strchr(path, ptr + 4, "/")
        slash2 == IF slash1 = 0 THEN 0 ELSE strchr(path, slash1 + 1, "/")
        r == IF slash2 # 0 THEN [ps EXCEPT !.ret = -1] ELSE iwatch_add(ps, path)
    IN  [r EXCEPT !.trace = Append(@, [Ev("pidfile_add_path", "", -1, -1, r.ret)
                                        EXCEPT !.name = path, !.pre = ps.iw,
                                               !.post = r.iw,
                                               !.flag = ps.iw_ok /\ path \in dirs])]

\* pidfile_add_path(iw, path): ptr = slash++ leaves ptr on the slash that the
\* first strchr() found, so the second strchr() finds it again
pidfile_add_path(ps, path) ==
    LET ptr == strstr(path, S_run_slash)
        slash1 == IF ptr = 0 THEN 0 ELSE strchr(path, ptr + 4, "/")
        slash2 == IF slash1 = 0 THEN 0 ELSE strchr(path, slash1, "/")
        r == IF slash2 # 0 THEN [ps EXCEPT !.ret = -1] ELSE iwatch_add(ps, path)
    IN  [r EXCEPT !.trace = Append(@, [Ev("pidfile_add_path", "", -1, -1, r.ret)
                                        EXCEPT !.name = path, !.pre = ps.iw,
                                               !.post = r.iw,
                                               !.flag = ps.iw_ok /\ path \in dirs])]

\* mutant: only IN_CREATE sets the condition
pidfile_update_conds_create_only(ps, dir, name, mask) ==
    LET fn == Join(dir, name)
        s  == svc_find_by_pidfile(fn)
    IN  IF ~IsPidfileName(fn) \/ s = "" THEN ps
        ELSE IF "IN_CREATE" \in mask
        THEN LET pid == pid_file_read(files, SvcOf(s).pidfile)
                 p1 == [ps EXCEPT !.svc[s].starting = FALSE]
                 p2 == IF SvcOf(s).forking
                       THEN [p1 EXCEPT !.svc[s].pid = pid,
                                       !.trace = Append(@, Ev("svc_pid", s, -1, -1, pid))]
                       ELSE p1
             IN  [p2 EXCEPT !.conds = @ \cup {mkcond(s)},
                            !.trace = Append(@, Ev("cond_set", s, -1, -1, 0))]
        ELSE IF "IN_DELETE" \in mask
        THEN [ps EXCEPT !.conds = @ \ {mkcond(s)},
                        !.trace = Append(@, Ev("cond_clear", s, -1, -1, 0))]
        ELSE ps

\* mutant: the service is looked up by the file's name alone, whatever the
\* directory
pidfile_update_conds_by_name(ps, dir, name, mask) ==
    LET fn == Join(dir, name)
        hit == {x \in SvcIds : basename(SvcOf(x).pidfile) = name}
        s  == IF hit = {} THEN "" ELSE CHOOSE x \in hit : TRUE
    IN  IF ~IsPidfileName(fn) \/ s = "" THEN ps
        ELSE IF mask \cap IN_SET # {}
        THEN LET pid == pid_file_read(files, SvcOf(s).pidfile)
                 p1 == [ps EXCEPT !.svc[s].starting = FALSE]
                 p2 == IF SvcOf(s).forking
                       THEN [p1 EXCEPT !.svc[s].pid = pid,
                                       !.trace = Append(@, Ev("svc_pid", s, -1, -1, pid))]
                       ELSE p1
             IN  [p2 EXCEPT !.conds = @ \cup {mkcond(s)},
                            !.trace = Append(@, Ev("cond_set", s, -1, -1, 0))]
        ELSE ps

\* mutant: the condition is set before the pid is read from the pidfile
pidfile_update_conds_late_pid(ps, dir, name, mask) ==
    LET fn == Join(dir, name)
        s  == svc_find_by_pidfile(fn)
    IN  IF ~IsPidfileName(fn) \/ s = "" THEN ps
        ELSE IF mask \cap IN_SET # {}
        THEN LET pid == pid_file_read(files, SvcOf(s).pidfile)
                 p1 == [ps EXCEPT !.svc[s].starting = FALSE,
                                  !.conds = @ \cup {mkcond(s)},
                                  !.trace = Append(@, Ev("cond_set", s, -1, -1, 0))]
             IN  IF SvcOf(s).forking
                 THEN [p1 EXCEPT !.svc[s].pid = pid,
                                 !.trace = Append(@, Ev("svc_pid", s, -1, -1, pid))]
                 ELSE p1
        ELSE IF "IN_DELETE" \in mask
        THEN [ps EXCEPT !.conds = @ \ {mkcond(s)},
                        !.trace = Append(@, Ev("cond_clear", s, -1, -1, 0))]
        ELSE ps

\* pidfile_update_conds(dir, name, mask)
pidfile_update_conds(ps, dir, name, mask) ==
    LET fn == Join(dir, name)
        s  == svc_find_by_pidfile(fn)
    IN  IF ~IsPidfileName(fn) \/ s = "" THEN ps
        ELSE IF mask \cap IN_SET # {}
        THEN LET pid == pid_file_read(files, SvcOf(s).pidfile)
                 \* svc_started(svc)
                 p1 == [ps EXCEPT !.svc[s].starting = FALSE]
                 p2 == IF SvcOf(s).forking
                       THEN [p1 EXCEPT !.svc[s].pid = pid,
                                       !.trace = Append(@, Ev("svc_pid", s, -1, -1, pid))]
                       ELSE p1
             IN  [p2 EXCEPT !.conds = @ \cup {mkcond(s)},
                            !.trace = Append(@, Ev("cond_set", s, -1, -1, 0))]
        ELSE IF "IN_DELETE" \in mask
        THEN [ps EXCEPT !.conds = @ \ {mkcond(s)},
                        !.trace = Append(@, Ev("cond_clear", s, -1, -1, 0))]
        ELSE ps

\* pidfile_scandir(iw, dir, len): one synthesized IN_CREATE per path glob()
\* found, with the path glob() returned as the name
RECURSIVE pidfile_scandir(_, _, _)
pidfile_scandir(ps, dir, pathv) ==
    IF pathv = <<>> THEN ps
    ELSE pidfile_scandir(
             pidfile_update_conds(
                 [ps EXCEPT !.trace = Append(@, [Ev("scan_found", "", -1, -1, 0)
                                                  EXCEPT !.name = Head(pathv)])],
                 dir, Head(pathv), {"IN_CREATE"}),
             dir, Tail(pathv))

\* pidfile_handle_dir(iw, dir, name, mask)
pidfile_handle_dir(ps, dir, name, mask) ==
    LET path == Join(dir, name)
        iwp  == path \in ps.iw
    IN  IF "IN_CREATE" \in mask
        THEN IF ~iwp
             THEN pidfile_scandir(pidfile_add_path(ps, path), path, Glob(files, path))
             ELSE ps
        ELSE IF "IN_DELETE" \in mask
        THEN IF iwp THEN [ps EXCEPT !.iw = @ \ {path}] ELSE ps
        ELSE ps

\* pidfile_callback(arg, fd, events): the loop over the events read() returned
RECURSIVE pidfile_callback(_, _)
pidfile_callback(ps, evs) ==
    IF evs = <<>> THEN ps
    ELSE LET ev == Head(evs)
             p0 == [ps EXCEPT !.trace = Append(@, [Ev("event", "", -1, -1, 0)
                                                    EXCEPT !.name = Join(ev.wd, ev.name),
                                                           !.mask = ev.mask,
                                                           !.flag = ev.wd \in ps.iw])]
             p1 == IF ev.mask = {} THEN p0
                   \* iwatch_find_by_wd()
                   ELSE IF ev.wd \notin ps.iw THEN p0
                   ELSE IF "IN_ISDIR" \in ev.mask
                   THEN pidfile_handle_dir(p0, ev.wd, ev.name, ev.mask)
                   ELSE IF "IN_DELETE" \in ev.mask THEN p0
                   ELSE IF ev.mask \cap IN_SET # {}
                   THEN pidfile_update_conds(p0, ev.wd, ev.name, ev.mask)
                   ELSE p0
         IN  pidfile_callback(p1, Tail(evs))

\* mutant: services changed by the reload are reasserted too
pidfile_reconf_changed(ps) ==
    LET todo == {s \in SvcIds : /\ ps.svc[s].state = "running"
                                /\ ~ps.svc[s].starting
                                /\ mkcond(s) \notin ps.conds}
        sets == SetToSeq(todo)
    IN  [ps EXCEPT !.conds = @ \cup {mkcond(s) : s \in todo},
                   !.trace = [k \in 1..Len(sets) |-> Ev("cond_set_path", sets[k], -1, -1, 0)]
                             \o <<Ev("service_step_all", "", HOOK_SVC_RECONF, -1, 0)>>]

\* mutant: only forking services are reasserted
pidfile_reconf_forking(ps) ==
    LET todo == {s \in SvcIds : /\ ps.svc[s].state = "running"
                                /\ ~(ps.svc[s].changed \/ ps.svc[s].starting)
                                /\ SvcOf(s).forking
                                /\ mkcond(s) \notin ps.conds}
        sets == SetToSeq(todo)
    IN  [ps EXCEPT !.conds = @ \cup {mkcond(s) : s \in todo},
                   !.trace = [k \in 1..Len(sets) |-> Ev("cond_set_path", sets[k], -1, -1, 0)]
                             \o <<Ev("service_step_all", "", HOOK_SVC_RECONF, -1, 0)>>]

\* pidfile_reconf(arg)
pidfile_reconf(ps) ==
    LET todo == {s \in SvcIds : /\ ps.svc[s].state = "running"
                                /\ ~(ps.svc[s].changed \/ ps.svc[s].starting)
                                /\ mkcond(s) \notin ps.conds}
        sets == SetToSeq(todo)
    IN  [ps EXCEPT !.conds = @ \cup {mkcond(s) : s \in todo},
                   !.trace = [k \in 1..Len(sets) |-> Ev("cond_set_path", sets[k], -1, -1, 0)]
                             \o <<Ev("service_step_all", "", HOOK_SVC_RECONF, -1, 0)>>]

\* pidfile_init(arg): realpath(_PATH_VARRUN) is the run directory, NULL when
\* it does not exist
pidfile_init(ps) ==
    IF P_run \notin dirs THEN ps
    ELSE LET r == pidfile_add_path(ps, P_run)
         IN  IF r.ret # 0 THEN iwatch_exit(r) ELSE r

\* ------------------------------------------------- the plugin's callbacks
PidState == [svc |-> svc, conds |-> conds, iw |-> iw, iw_ok |-> iw_ok,
             trace |-> <<>>, ret |-> 0]

\* the state when the plugin has registered: the constructor has opened the
\* inotify descriptor, nothing is watched, the run directory exists and no
\* condition is set
PidInit ==
    /\ pc = "basefs"
    /\ dir_ok = TRUE
    /\ dirents = <<>>
    /\ dirpos = 0
    /\ plugpath = NULL
    /\ plugins = <<>>
    /\ loaded = <<>>
    /\ dl = [o \in ObjIds |-> 0]
    /\ fds = {0, 1, 2}
    /\ watcher = [o \in ObjIds |-> [fd |-> -1, active |-> FALSE]]
    /\ conds = {}
    /\ fail = 0
    /\ init_ret = 0
    /\ steps = 0
    /\ trace = <<>>
    /\ svc \in [SvcIds -> SvcInits]
    /\ iw = {}
    /\ iw_ok = TRUE
    /\ dirs = {P_run}
    /\ files = <<>>
    /\ inq = <<>>
    /\ nev = 0
    /\ TtyIdle
    /\ GettyIdle

\* HOOK_BASEFS_UP runs pidfile_init()
PidfileInit ==
    /\ pc = "basefs"
    /\ LET r == pidfile_init(PidState)
       IN  /\ iw' = r.iw
           /\ iw_ok' = r.iw_ok
           /\ trace' = r.trace
    /\ pc' = "running"
    /\ UNCHANGED <<dirents, dir_ok, dirpos, plugpath, plugins, dl, fds, watcher,
                   loaded, fail, init_ret, steps>>
    /\ UNCHANGED <<conds, svc, dirs, files, inq, nev>>
    /\ UNCHANGED ttyvars /\ UNCHANGED gettyvars

\* the inotify descriptor is readable: generic_io_cb() runs pidfile_callback(),
\* read() returns the queued events, or nothing (sz <= 0) when none is
\* queued, and then the callback goes to done
PidfileCallback ==
    /\ iw_ok
    /\ LET r == IF inq = <<>>
                THEN [PidState EXCEPT !.trace = <<Ev("read", "", -1, -1, -1)>>]
                ELSE pidfile_callback(PidState, inq)
       IN  /\ svc' = r.svc
           /\ conds' = r.conds
           /\ iw' = r.iw
           /\ trace' = r.trace
    /\ inq' = <<>>
    /\ UNCHANGED plugvars /\ UNCHANGED ttyvars /\ UNCHANGED gettyvars
    /\ UNCHANGED <<iw_ok, dirs, files, nev>>

\* HOOK_SVC_RECONF runs pidfile_reconf()
PidfileReconf ==
    /\ pc = "running"
    /\ LET r == pidfile_reconf(PidState)
       IN  /\ conds' = r.conds
           /\ trace' = r.trace
    /\ UNCHANGED plugvars /\ UNCHANGED ttyvars /\ UNCHANGED gettyvars
    /\ UNCHANGED <<svc, iw, iw_ok, dirs, files, inq, nev>>

\* ------------------------------------------------------- the file system
\* the kernel queues an event for the watch on the parent directory, if any
Notify(q, path, mask) ==
    IF iw_ok /\ DirName(path) \in iw
    THEN Append(q, [wd |-> DirName(path), mask |-> mask, name |-> basename(path)])
    ELSE q

\* mkdir(d)
Mkdir(d) ==
    /\ nev < MaxEvents
    /\ d \notin dirs
    /\ DirName(d) \in dirs
    /\ dirs' = dirs \cup {d}
    /\ inq' = Notify(inq, d, {"IN_CREATE", "IN_ISDIR"})
    /\ nev' = nev + 1
    /\ UNCHANGED plugvars /\ UNCHANGED ttyvars /\ UNCHANGED gettyvars
    /\ UNCHANGED <<conds, trace, svc, iw, iw_ok, files>>

\* rmdir(d) of an empty directory
Rmdir(d) ==
    /\ nev < MaxEvents
    /\ d \in dirs
    /\ \A x \in dirs \cup DOMAIN files : DirName(x) # d
    /\ dirs' = dirs \ {d}
    /\ inq' = Notify(inq, d, {"IN_DELETE", "IN_ISDIR"})
    /\ nev' = nev + 1
    /\ UNCHANGED plugvars /\ UNCHANGED ttyvars /\ UNCHANGED gettyvars
    /\ UNCHANGED <<conds, trace, svc, iw, iw_ok, files>>

\* what the file holds after an operation of kind on it: creat() leaves it
\* empty, write() and rename() bring the pid of the daemon, a change of
\* attributes keeps the content
Written(fs, f, kind) ==
    CASE kind = "IN_CREATE" -> 0
      [] kind = "IN_ATTRIB" -> fs[f]
      [] OTHER -> DaemonPid

\* a daemon creates, writes, touches or renames into place the file f
WriteFile(f, kind) ==
    /\ nev < MaxEvents
    /\ DirName(f) \in dirs
    /\ CASE kind = "IN_CREATE" -> f \notin DOMAIN files
         [] kind = "IN_MOVED_TO" -> TRUE
         [] OTHER -> f \in DOMAIN files
    /\ files' = [x \in DOMAIN files \cup {f} |->
                   IF x = f THEN Written(files, f, kind) ELSE files[x]]
    /\ inq' = Notify(inq, f, {kind})
    /\ nev' = nev + 1
    /\ UNCHANGED plugvars /\ UNCHANGED ttyvars /\ UNCHANGED gettyvars
    /\ UNCHANGED <<conds, trace, svc, iw, iw_ok, dirs>>

\* unlink(f)
DeleteFile(f) ==
    /\ nev < MaxEvents
    /\ f \in DOMAIN files
    /\ files' = [x \in DOMAIN files \ {f} |-> files[x]]
    /\ inq' = Notify(inq, f, {"IN_DELETE"})
    /\ nev' = nev + 1
    /\ UNCHANGED plugvars /\ UNCHANGED ttyvars /\ UNCHANGED gettyvars
    /\ UNCHANGED <<conds, trace, svc, iw, iw_ok, dirs>>

PidNext ==
    \/ PidfileInit
    \/ PidfileCallback
    \/ PidfileReconf
    \/ \E d \in DirUniverse : Mkdir(d)
    \/ \E d \in DirUniverse : Rmdir(d)
    \/ \E f \in FileUniverse, kind \in IN_SET : WriteFile(f, kind)
    \/ \E f \in FileUniverse : DeleteFile(f)

PidSpec == PidInit /\ [][PidNext]_vars

\* ==================================================================== tty.c
\* ------------------------------------------------------------ TTY strings
PATH_DEV == <<"/", "d", "e", "v", "/">>
T_slashdev == <<"/", "d", "e", "v">>
T_tty == <<"t", "t", "y">>
T_console == <<"@", "c", "o", "n", "s", "o", "l", "e">>
T_ttyUSB0 == <<"t", "t", "y", "U", "S", "B", "0">>
T_getty == <<"/", "s", "b", "i", "n", "/", "g", "e", "t", "t", "y">>
T_noclear == <<"n", "o", "c", "l", "e", "a", "r">>
T_nowait == <<"n", "o", "w", "a", "i", "t">>

Digits == {"0", "1", "2", "3", "4", "5", "6", "7", "8", "9"}

\* the value of the digit character c
DigitVal(c) == CHOOSE n \in 0..9 : <<"0", "1", "2", "3", "4", "5", "6", "7", "8", "9">>[n + 1] = c

\* strncmp(s, p, strlen(p)) == 0
StartsWith(s, p) == Len(s) >= Len(p) /\ SubSeq(s, 1, Len(p)) = p

\* ------------------------------------------------------------ device nodes
\* /dev holds the serial console ttyS0 (a terminal) and the disk sda (a block
\* device); the USB serial port ttyUSB0 is a terminal that comes and goes
DEV_ttyS0 == PATH_DEV \o <<"t", "t", "y", "S", "0">>
DEV_ttyUSB0 == PATH_DEV \o T_ttyUSB0
DEV_sda == PATH_DEV \o <<"s", "d", "a">>
HotplugDevs == {DEV_ttyUSB0}

\* stat(path, &st) succeeds
stat(path, dv) == path \in {DEV_ttyS0, DEV_sda} \cup dv

\* S_ISCHR(st.st_mode)
S_ISCHR(path) == path # DEV_sda

\* /sys/class/tty/console/active names the serial console
SysConsoleActive == <<"t", "t", "y", "S", "0">>

\* access(arg, X_OK) == 0
access_X_OK(arg) == arg = T_getty

\* canonicalize(tty): NULL for a NULL argument and for a node that is not a
\* character device; a name that cannot be stat()ed is returned with the
\* /dev/ prefix ("unavailable, registering anyway")
canonicalize(tty, dv) ==
    IF tty = NULL THEN NULL
    ELSE LET t == IF tty = T_console THEN SysConsoleActive ELSE tty
         IN  IF stat(t, dv)
             THEN IF S_ISCHR(t) THEN t ELSE NULL
             ELSE IF StartsWith(t, PATH_DEV) THEN t
             ELSE LET path == PATH_DEV \o t
                  IN  IF ~stat(path, dv) THEN path
                      ELSE IF S_ISCHR(path) THEN path ELSE NULL

\* tty_exist(dev): 0 when the node can be opened and tcgetattr() succeeds
tty_exist(dev, dv) == IF dev \in {DEV_ttyS0} \cup (dv \cap HotplugDevs) THEN 0 ELSE 1

\* conf_parse_runlevels(): "[234]" for NULL; the characters after the first
\* up to ']' are levels, 'S' is level 0 and '!' starts from all of 1..9 and
\* clears the levels that follow
RECURSIVE parse_levels(_, _, _, _)
parse_levels(str, i, not, mask) ==
    IF i > Len(str) \/ str[i] = "]" THEN mask
    ELSE IF str[i] = "!" THEN parse_levels(str, i + 1, TRUE, 1..9)
    ELSE IF str[i] \in {"s", "S"}
         THEN parse_levels(str, i + 1, not, IF not THEN mask \ {0} ELSE mask \cup {0})
    ELSE IF str[i] \in Digits
         THEN parse_levels(str, i + 1, not,
                           IF not THEN mask \ {DigitVal(str[i])}
                           ELSE mask \cup {DigitVal(str[i])})
    ELSE parse_levels(str, i + 1, not, mask)

conf_parse_runlevels(runlevels) ==
    parse_levels(IF runlevels = NULL THEN <<"[", "2", "3", "4", "]">> ELSE runlevels,
                 2, FALSE, {})

\* ISSET(tty->runlevels, runlevel)
tty_enabled(tty, rl) == rl \in tty.runlevels

\* tty_find(dev) that finds nothing
tty_find_none(list, dev) == 0

\* tty_find(dev): index of the first record named dev, 0 is NULL
tty_find(list, dev) ==
    LET hits == {i \in 1..Len(list) : list[i].name = dev}
    IN  IF hits = {} THEN 0 ELSE CHOOSE i \in hits : \A j \in hits : i <= j

\* tty_find_by_pid(pid): index of the first record with that pid, 0 is NULL
tty_find_by_pid(list, pid) ==
    LET hits == {i \in 1..Len(list) : list[i].pid = pid}
    IN  IF hits = {} THEN 0 ELSE CHOOSE i \in hits : \A j \in hits : i <= j

\* tty_num_active(): records with a getty
tty_num_active(list) == Cardinality({i \in 1..Len(list) : list[i].pid # 0})

\* ------------------------------------------------------------ TTY records
SIGKILL == "SIGKILL"
SIGTERM == "SIGTERM"
EINVAL == 22

\* a pid that finit forked for something other than a getty
OtherPid == 2

\* one effect of a TTY operation: who is the device name of the record, pid
\* a process id, sig a signal or a remark, ret a return value or the dirty
\* flag of the record at that moment
TtyEv(op, who, pid, sig, ret) ==
    [op |-> op, who |-> who, pid |-> pid, sig |-> sig, ret |-> ret]

\* the state the TTY functions work on
TtyState ==
    [list |-> tty_list, nextpid |-> nextpid, fallback |-> fallback,
     shell |-> shell, trace |-> <<>>]

\* the arguments of the line, in the loop of tty_register(): acc holds dev,
\* cmd, baud, term and runlevels
RECURSIVE tty_parse_args(_, _, _, _)
tty_parse_args(line, args, i, acc) ==
    IF i > Len(args) THEN acc
    ELSE LET a == args[i]
             isdev == StartsWith(a, T_slashdev) \/ StartsWith(a, T_tty)
         IN  IF acc.dev = NULL /\ acc.cmd = NULL
             THEN tty_parse_args(line, args, i + 1,
                      [acc EXCEPT !.runlevels = IF a[1] = "[" THEN line[1] ELSE @,
                                  !.dev = IF a = T_console \/ isdev THEN a ELSE @,
                                  !.cmd = IF access_X_OK(a) THEN a ELSE @])
             ELSE IF acc.dev # NULL /\ a[1] \in Digits
             THEN tty_parse_args(line, args, i + 1, [acc EXCEPT !.baud = a])
             ELSE tty_parse_args(line, args, i + 1,
                      [acc EXCEPT !.term = IF acc.dev # NULL /\ i = Len(args)
                                           THEN a ELSE @,
                                  !.dev = IF acc.cmd # NULL /\ isdev THEN a ELSE @])

\* LIST_INSERT_HEAD(&tty_list, entry, link)
LIST_INSERT_HEAD(list, entry) == <<entry>> \o list

\* tty_register(line, rlimit, file): changed is file && conf_changed(file)
tty_register(ts, line, changed, dv) ==
    LET args == SelectSeq(line, LAMBDA t : t \notin {T_noclear, T_nowait})
        acc == tty_parse_args(line, args, 1,
                   [dev |-> NULL, cmd |-> NULL, baud |-> NULL, term |-> NULL,
                    runlevels |-> NULL])
        dev == canonicalize(acc.dev, dv)
        old == tty_find(ts.list, dev)
        base == IF old = 0
                THEN [name |-> dev, cmd |-> NULL, pid |-> 0, dirty |-> 0]
                ELSE [name |-> dev, cmd |-> ts.list[old].cmd,
                      pid |-> ts.list[old].pid, dirty |-> ts.list[old].dirty]
        entry == [name |-> dev,
                  baud |-> acc.baud,
                  term |-> acc.term,
                  noclear |-> \E k \in 1..Len(line) : line[k] = T_noclear,
                  nowait |-> \E k \in 1..Len(line) : line[k] = T_nowait,
                  runlevels |-> conf_parse_runlevels(acc.runlevels),
                  cmd |-> IF acc.cmd # NULL THEN acc.cmd ELSE base.cmd,
                  pid |-> base.pid,
                  dirty |-> IF changed THEN 1 ELSE 0]
    IN  IF acc.dev = NULL \/ dev = NULL
        THEN [ts EXCEPT !.trace = @ \o <<TtyEv("tty_register", NULL, 0, "error", EINVAL)>>]
        ELSE [ts EXCEPT
                 !.list = IF old = 0 THEN LIST_INSERT_HEAD(@, entry)
                          ELSE [@ EXCEPT ![old] = entry],
                 !.trace = @ \o <<TtyEv("tty_register", dev, entry.pid,
                                        IF old = 0 THEN "insert" ELSE "update",
                                        0)>>]

\* tty_unregister(tty): LIST_REMOVE and free
tty_unregister(ts, i) ==
    [ts EXCEPT
        !.list = SubSeq(@, 1, i - 1) \o SubSeq(@, i + 1, Len(@)),
        !.trace = @ \o <<TtyEv("tty_unregister", ts.list[i].name, ts.list[i].pid,
                               "", ts.list[i].dirty)>>]

\* tty_mark(): every record becomes dirty = -1
tty_mark(list) == [i \in 1..Len(list) |-> [list[i] EXCEPT !.dirty = -1]]

\* tty_stop(tty) with SIGTERM sent before SIGKILL
tty_stop_term(ts, i) ==
    IF ts.list[i].pid = 0 THEN ts
    ELSE [ts EXCEPT
             !.list[i].pid = 0,
             !.trace = @ \o <<TtyEv("kill", ts.list[i].name, ts.list[i].pid, SIGTERM, 0),
                              TtyEv("kill", ts.list[i].name, ts.list[i].pid, SIGKILL, 0),
                              TtyEv("waitpid", ts.list[i].name, ts.list[i].pid, "", 0)>>]

\* tty_stop(tty): nothing without a getty; else kill(pid, SIGKILL),
\* waitpid(pid, NULL, 0) and pid = 0
tty_stop(ts, i) ==
    IF ts.list[i].pid = 0 THEN ts
    ELSE [ts EXCEPT
             !.list[i].pid = 0,
             !.trace = @ \o <<TtyEv("kill", ts.list[i].name, ts.list[i].pid, SIGKILL, 0),
                              TtyEv("waitpid", ts.list[i].name, ts.list[i].pid, "", 0)>>]

\* run_getty()/run_getty2(): fork() the getty and return its pid
run_getty(ts, i) ==
    [ts EXCEPT
        !.list[i].pid = ts.nextpid,
        !.nextpid = @ + 1,
        !.trace = @ \o <<TtyEv("run_getty", ts.list[i].name, ts.nextpid, "", 0)>>]

\* tty_start(tty) without the test for a getty that runs already
tty_start_over(ts, i, dv) ==
    LET dev == canonicalize(ts.list[i].name, dv)
    IN  IF dev = NULL THEN ts
        ELSE IF tty_exist(dev, dv) # 0 THEN ts
        ELSE run_getty(ts, i)

\* tty_start(tty): nothing when a getty runs already, when the name does not
\* canonicalize or when the device is not a terminal
tty_start(ts, i, dv) ==
    IF ts.list[i].pid # 0 THEN ts
    ELSE LET dev == canonicalize(ts.list[i].name, dv)
         IN  IF dev = NULL THEN ts
             ELSE IF tty_exist(dev, dv) # 0 THEN ts
             ELSE run_getty(ts, i)

\* tty_action(tty) that leaves the getty of a TTY that is not enabled alone
tty_action_nostop(ts, i, rl, dv) ==
    IF ~tty_enabled(ts.list[i], rl) THEN ts ELSE tty_start(ts, i, dv)

\* tty_action(tty) that restarts the getty of an enabled TTY
tty_action_restart(ts, i, rl, dv) ==
    IF ~tty_enabled(ts.list[i], rl) THEN tty_stop(ts, i)
    ELSE tty_start(tty_stop(ts, i), i, dv)

\* tty_action(tty): stop when not enabled in the runlevel, else start
tty_action(ts, i, rl, dv) ==
    IF ~tty_enabled(ts.list[i], rl) THEN tty_stop(ts, i) ELSE tty_start(ts, i, dv)

\* tty_sweep() that unregisters every dirty record
RECURSIVE tty_sweep_dirty(_, _)
tty_sweep_dirty(ts, i) ==
    IF i > Len(ts.list) THEN ts
    ELSE IF ts.list[i].dirty = 0 THEN tty_sweep_dirty(ts, i + 1)
    ELSE tty_sweep_dirty(tty_unregister(tty_stop(ts, i), i), i)

\* tty_sweep(): LIST_FOREACH_SAFE from record i on; clean records are
\* skipped, dirty ones stopped, and those still marked -1 unregistered
RECURSIVE tty_sweep(_, _)
tty_sweep(ts, i) ==
    IF i > Len(ts.list) THEN ts
    ELSE IF ts.list[i].dirty = 0 THEN tty_sweep(ts, i + 1)
    ELSE LET stopped == tty_stop(ts, i)
         IN  IF ts.list[i].dirty = -1
             THEN tty_sweep(tty_unregister(stopped, i), i)
             ELSE tty_sweep(stopped, i + 1)

\* the LIST_FOREACH of tty_reload(NULL): tty_action() and dirty = 0
RECURSIVE tty_reload_each(_, _, _, _)
tty_reload_each(ts, i, rl, dv) ==
    IF i > Len(ts.list) THEN ts
    ELSE tty_reload_each([tty_action(ts, i, rl, dv) EXCEPT !.list[i].dirty = 0],
                         i + 1, rl, dv)

\* tty_reload(dev) without the sweep
tty_reload_nosweep(ts, dev, rl, dv) ==
    IF dev # NULL
    THEN LET i == tty_find(ts.list, dev)
         IN  IF i = 0 THEN ts
             ELSE [tty_action(ts, i, rl, dv) EXCEPT !.list[i].dirty = 0]
    ELSE tty_reload_each(ts, 1, rl, dv)

\* tty_reload(dev): one device, or with NULL the sweep and then every record
tty_reload(ts, dev, rl, dv) ==
    IF dev # NULL
    THEN LET i == tty_find(ts.list, dev)
         IN  IF i = 0 THEN ts
             ELSE [tty_action(ts, i, rl, dv) EXCEPT !.list[i].dirty = 0]
    ELSE tty_reload_each(tty_sweep(ts, 1), 1, rl, dv)

\* tty_fallback(lost) with FALLBACK_SHELL: lost == 1 kills the shell; else a
\* shell is forked when the lost pid is the shell's (0 when there is none)
\* and no TTY is active; the return value is the ret of the event
tty_fallback(ts, lost) ==
    IF lost = 1
    THEN IF ts.fallback # 0
         THEN [ts EXCEPT !.fallback = 0,
                         !.shell = IF @ = ts.fallback THEN 0 ELSE @,
                         !.trace = @ \o <<TtyEv("kill", NULL, ts.fallback, SIGKILL, 0),
                                          TtyEv("tty_fallback", NULL, lost, "", 0)>>]
         ELSE [ts EXCEPT !.trace = @ \o <<TtyEv("tty_fallback", NULL, lost, "", 0)>>]
    ELSE IF ts.fallback # lost \/ tty_num_active(ts.list) # 0
    THEN [ts EXCEPT !.trace = @ \o <<TtyEv("tty_fallback", NULL, lost, "", 0)>>]
    ELSE [ts EXCEPT !.fallback = ts.nextpid,
                    !.shell = ts.nextpid,
                    !.nextpid = @ + 1,
                    !.trace = @ \o <<TtyEv("fork", NULL, ts.nextpid, "", 0),
                                     TtyEv("tty_fallback", NULL, lost, "", 1)>>]

\* the LIST_FOREACH of tty_runlevel()
RECURSIVE tty_runlevel_each(_, _, _, _)
tty_runlevel_each(ts, i, rl, dv) ==
    IF i > Len(ts.list) THEN ts
    ELSE tty_runlevel_each(tty_action(ts, i, rl, dv), i + 1, rl, dv)

\* tty_runlevel(): tty_action() on every record, then the fallback shell
tty_runlevel(ts, rl, dv) ==
    LET r == tty_runlevel_each(ts, 1, rl, dv)
    IN  tty_fallback(r, IF tty_num_active(r.list) > 0 THEN 1 ELSE 0)

\* tty_respawn(pid) that leaves the pid of the record in place
tty_respawn_keep_pid(ts, pid, rl, dv) ==
    LET i == tty_find_by_pid(ts.list, pid)
    IN  IF i = 0 THEN ts
        ELSE LET r == tty_action(ts, i, rl, dv)
             IN  [r EXCEPT !.trace = @ \o <<TtyEv("tty_respawn",
                                                  ts.list[i].name, pid, "", 1)>>]

\* tty_respawn(pid): the record of the pid is cleared and tty_action() run,
\* return 1; a pid of no record is left to tty_fallback()
tty_respawn(ts, pid, rl, dv) ==
    LET i == tty_find_by_pid(ts.list, pid)
    IN  IF i = 0
        THEN LET r == tty_fallback(ts, pid)
             IN  [r EXCEPT !.trace = @ \o <<TtyEv("tty_respawn", NULL, pid, "",
                                                  r.trace[Len(r.trace)].ret)>>]
        ELSE LET r == tty_action([ts EXCEPT !.list[i].pid = 0,
                                     !.trace = @ \o <<TtyEv("utmp_set_dead",
                                         ts.list[i].name, pid, "", 0)>>],
                                 i, rl, dv)
             IN  [r EXCEPT !.trace = @ \o <<TtyEv("tty_respawn",
                                                  ts.list[i].name, pid, "", 1)>>]

\* ------------------------------------------------------- the TTY operations
\* the TTY lines of the configuration files, split at blanks:
\*   [23] /dev/ttyS0 115200 vt100          built-in getty, serial console
\*   [3] @console                          the same device as system console
\*   [2] /sbin/getty -L ttyUSB0 noclear    external getty, USB serial port
\*   /dev/sda                              not a character device
TtyLines ==
    {<<<<"[", "2", "3", "]">>, DEV_ttyS0, <<"1", "1", "5", "2", "0", "0">>, <<"v", "t", "1", "0", "0">>>>,
     <<<<"[", "3", "]">>, T_console>>,
     <<<<"[", "2", "]">>, T_getty, <<"-", "L">>, T_ttyUSB0, T_noclear>>,
     <<DEV_sda>>}

\* the runlevels finit is taken to
Runlevels == {2, 3}

\* the device names of the records
TtyNames(list) == {list[i].name : i \in 1..Len(list)}

\* the first entry of the trace of a TTY operation: its name, its argument
\* and the list it found
TtyOp(op, who, pid, pre) ==
    [op |-> op, who |-> who, pid |-> pid, sig |-> "", ret |-> 0, pre |-> pre]

TtyInit ==
    /\ pc = "tty"
    /\ dir_ok = TRUE
    /\ dirents = <<>>
    /\ dirpos = 0
    /\ plugpath = NULL
    /\ plugins = <<>>
    /\ loaded = <<>>
    /\ dl = [o \in ObjIds |-> 0]
    /\ fds = {0, 1, 2}
    /\ watcher = [o \in ObjIds |-> [fd |-> -1, active |-> FALSE]]
    /\ conds = {}
    /\ fail = 0
    /\ init_ret = 0
    /\ steps = 0
    /\ trace = <<>>
    /\ svc = [s \in {} |-> 0]
    /\ iw = {}
    /\ iw_ok = FALSE
    /\ dirs = {}
    /\ files = <<>>
    /\ inq = <<>>
    /\ nev = 0
    /\ tty_list = <<>>
    /\ runlevel = 0
    /\ devs \in SUBSET HotplugDevs
    /\ nextpid = 3
    /\ phase = "boot"
    /\ hist = [marked |-> {}, snap |-> <<>>, pure |-> FALSE, done |-> FALSE,
               conf |-> <<>>]
    /\ nops = 0
    /\ fallback = 0
    /\ shell = 0
    /\ GettyIdle

\* the configuration parser, at boot and during a reload, finds a tty line;
\* no file counts as changed at boot, and nops counts the operations after it
TtyRegister(line, changed) ==
    /\ pc = "tty"
    /\ phase \in {"boot", "parsing"}
    /\ phase = "parsing" => nops < MaxTtyOps
    /\ phase = "boot" => ~changed
    /\ LET r == tty_register(TtyState, line, changed, devs)
           dev == r.trace[1].who
           i == tty_find(tty_list, dev)
       IN  /\ tty_list' = r.list
           /\ nextpid' = r.nextpid
           /\ trace' = <<TtyOp("tty_register", dev, 0, tty_list)>> \o r.trace
           /\ hist' = [hist EXCEPT
                          !.marked = @ \ {dev},
                          !.pure = @ /\ ~changed /\ i # 0 /\ hist.conf[dev] = line,
                          !.conf = IF dev = NULL THEN @
                                   ELSE [n \in DOMAIN @ \cup {dev} |->
                                            IF n = dev THEN line ELSE @[n]],
                          !.done = FALSE]
    /\ nops' = IF phase = "parsing" THEN nops + 1 ELSE nops
    /\ UNCHANGED <<runlevel, devs, phase, fallback, shell>>
    /\ UNCHANGED plugvars /\ UNCHANGED pidvars /\ UNCHANGED conds
    /\ UNCHANGED gettyvars

\* a reload of the configuration starts with tty_mark()
TtyMark ==
    /\ pc = "tty"
    /\ phase = "idle"
    /\ nops < MaxTtyOps
    /\ tty_list' = tty_mark(tty_list)
    /\ trace' = <<TtyOp("tty_mark", NULL, 0, tty_list)>>
    /\ hist' = [hist EXCEPT !.marked = TtyNames(tty_list), !.snap = tty_list,
                            !.pure = TRUE, !.done = FALSE]
    /\ phase' = "parsing"
    /\ nops' = nops + 1
    /\ UNCHANGED <<runlevel, devs, nextpid, fallback, shell>>
    /\ UNCHANGED plugvars /\ UNCHANGED pidvars /\ UNCHANGED conds
    /\ UNCHANGED gettyvars

\* tty_reload(NULL) ends the reload; tty_reload(dev) reloads one device
TtyReload(dev) ==
    /\ pc = "tty"
    /\ phase = IF dev = NULL THEN "parsing" ELSE "idle"
    /\ nops < MaxTtyOps
    /\ LET r == tty_reload(TtyState, dev, runlevel, devs)
       IN  /\ tty_list' = r.list
           /\ nextpid' = r.nextpid
           /\ trace' = <<TtyOp("tty_reload", dev, 0, tty_list)>> \o r.trace
           /\ hist' = [hist EXCEPT
                          !.pure = FALSE,
                          !.conf = [n \in TtyNames(r.list) |-> @[n]],
                          !.done = dev = NULL /\ hist.pure /\ hist.marked = {}]
    /\ phase' = "idle"
    /\ nops' = nops + 1
    /\ UNCHANGED <<runlevel, devs, fallback, shell>>
    /\ UNCHANGED plugvars /\ UNCHANGED pidvars /\ UNCHANGED conds
    /\ UNCHANGED gettyvars

\* finit enters runlevel r and calls tty_runlevel()
TtyRunlevel(r) ==
    /\ pc = "tty"
    /\ phase \in {"boot", "idle"}
    /\ nops < MaxTtyOps
    /\ runlevel' = r
    /\ LET t == tty_runlevel(TtyState, r, devs)
       IN  /\ tty_list' = t.list
           /\ nextpid' = t.nextpid
           /\ fallback' = t.fallback
           /\ shell' = t.shell
           /\ trace' = <<TtyOp("tty_runlevel", NULL, 0, tty_list)>> \o t.trace
    /\ hist' = [hist EXCEPT !.pure = FALSE, !.done = FALSE]
    /\ phase' = "idle"
    /\ nops' = nops + 1
    /\ UNCHANGED devs
    /\ UNCHANGED plugvars /\ UNCHANGED pidvars /\ UNCHANGED conds
    /\ UNCHANGED gettyvars

\* a child of finit exited and was reaped: tty_respawn(pid); when it was the
\* fallback shell, no shell is alive any more
TtyRespawn(pid) ==
    /\ pc = "tty"
    /\ nops < MaxTtyOps
    /\ LET r == tty_respawn([TtyState EXCEPT !.shell = IF @ = pid THEN 0 ELSE @],
                            pid, runlevel, devs)
       IN  /\ tty_list' = r.list
           /\ nextpid' = r.nextpid
           /\ fallback' = r.fallback
           /\ shell' = r.shell
           /\ trace' = <<TtyOp("tty_respawn", NULL, pid, tty_list)>> \o r.trace
    /\ hist' = [hist EXCEPT !.pure = FALSE, !.done = FALSE]
    /\ nops' = nops + 1
    /\ UNCHANGED <<runlevel, devs, phase>>
    /\ UNCHANGED plugvars /\ UNCHANGED pidvars /\ UNCHANGED conds
    /\ UNCHANGED gettyvars

\* the USB serial port is plugged in or pulled out
Hotplug(d) ==
    /\ pc = "tty"
    /\ nops < MaxTtyOps
    /\ devs' = IF d \in devs THEN devs \ {d} ELSE devs \cup {d}
    /\ trace' = <<>>
    /\ hist' = [hist EXCEPT !.pure = FALSE, !.done = FALSE]
    /\ nops' = nops + 1
    /\ UNCHANGED <<tty_list, runlevel, nextpid, phase, fallback, shell>>
    /\ UNCHANGED plugvars /\ UNCHANGED pidvars /\ UNCHANGED conds
    /\ UNCHANGED gettyvars

\* the pids of the children that can exit: the gettys, the fallback shell
\* while it is alive, and one other child (a service, or a shell that
\* tty_fallback() killed without waiting for it)
ChildPids ==
    ({tty_list[i].pid : i \in 1..Len(tty_list)} \cup {shell, OtherPid}) \ {0}

TtyNext ==
    \/ \E line \in TtyLines, changed \in BOOLEAN : TtyRegister(line, changed)
    \/ TtyMark
    \/ \E dev \in {NULL} \cup TtyNames(tty_list) : TtyReload(dev)
    \/ \E r \in Runlevels : TtyRunlevel(r)
    \/ \E pid \in ChildPids : TtyRespawn(pid)
    \/ \E d \in HotplugDevs : Hotplug(d)

TtySpec == TtyInit /\ [][TtyNext]_vars

\* ================================================================= getty
\* The built-in getty (getty.c) from the restart label of getty() to
\* do_login(): get_logname(tty, name, sizeof(name)) one readch() at a time.
\* The trace holds the stores into name[] of the last step, off being the
\* offset from name.  logname_len stands for the value main() computes.
GettyInit ==
    /\ pc = "getty"
    /\ dir_ok = TRUE
    /\ dirents = <<>>
    /\ dirpos = 0
    /\ plugpath = NULL
    /\ plugins = <<>>
    /\ loaded = <<>>
    /\ dl = [o \in ObjIds |-> 0]
    /\ fds = {0, 1, 2}
    /\ watcher = [o \in ObjIds |-> [fd |-> -1, active |-> FALSE]]
    /\ conds = {}
    /\ fail = 0
    /\ init_ret = 0
    /\ steps = 0
    /\ trace = <<>>
    /\ svc = [s \in {} |-> 0]
    /\ iw = {}
    /\ iw_ok = FALSE
    /\ dirs = {}
    /\ files = <<>>
    /\ inq = <<>>
    /\ nev = 0
    /\ TtyIdle
    /\ stdin \in UNION {[1..n -> {"a", "\n", "EOF"}] : n \in 0..MaxLine}
    /\ logname = [k \in 1..(logname_len + 2) |-> "?"]
    /\ np = 0

\* getty() at restart: stty(), then get_logname() up to its first readch():
\* *name = '\0', do_issue(tty), np = name
GettyStart ==
    /\ pc = "getty"
    /\ logname' = [logname EXCEPT ![1] = ""]
    /\ np' = 0
    /\ trace' = <<[op |-> "store", off |-> 0, ch |-> ""]>>
    /\ pc' = "readch"
    /\ UNCHANGED stdin
    /\ UNCHANGED <<dirents, dir_ok, dirpos, plugpath, plugins, dl, fds, watcher,
                   loaded, fail, init_ret, steps, conds>>
    /\ UNCHANGED pidvars /\ UNCHANGED ttyvars

\* one readch() of get_logname() with len = sizeof(name) and what follows
\* it up to the next readch(): a failed read returns 1 and getty() goes to
\* restart; a character is stored while np < name + len; a newline stores
\* NUL at np, prompts again after a blank line, and else stores NUL in
\* name[len - 1] and returns 0 to getty(), which runs do_login(name).  A
\* store past the array is undefined: the build with ub = "segv" dies of
\* it, the other carries on with the byte after the array overwritten.
GettyReadCh(ub) ==
    /\ pc = "readch"
    /\ stdin # <<>>
    /\ stdin' = Tail(stdin)
    /\ LET ch == Head(stdin)
           len == logname_len + 1
           nul == [logname EXCEPT ![np + 1] = ""]
       IN  IF ch = "EOF"
           THEN /\ ub = "none"
                /\ pc' = "getty"
                /\ trace' = <<>>
                /\ UNCHANGED <<logname, np>>
           ELSE IF ch # "\n"
           THEN /\ ub = "none"
                /\ pc' = "readch"
                /\ IF np < len
                   THEN /\ logname' = [logname EXCEPT ![np + 1] = ch]
                        /\ np' = np + 1
                        /\ trace' = <<[op |-> "store", off |-> np, ch |-> ch]>>
                   ELSE /\ trace' = <<>>
                        /\ UNCHANGED <<logname, np>>
           ELSE IF nul[1] = ""
           THEN /\ ub = "none"
                /\ pc' = "readch"
                /\ logname' = nul
                /\ np' = 0
                /\ trace' = <<[op |-> "store", off |-> np, ch |-> ""]>>
           ELSE /\ np < len => ub = "none"
                /\ pc' = IF ub = "segv" THEN "crashed" ELSE "login"
                /\ logname' = IF ub = "segv" THEN nul ELSE [nul EXCEPT ![len] = ""]
                /\ trace' = <<[op |-> "store", off |-> np, ch |-> ""]>>
                             \o (IF ub = "segv" THEN <<>>
                                 ELSE <<[op |-> "store", off |-> len - 1, ch |-> ""]>>)
                /\ UNCHANGED np
    /\ UNCHANGED <<dirents, dir_ok, dirpos, plugpath, plugins, dl, fds, watcher,
                   loaded, fail, init_ret, steps, conds>>
    /\ UNCHANGED pidvars /\ UNCHANGED ttyvars

GettyNext ==
    \/ GettyStart
    \/ \E ub \in UBOutcomes : GettyReadCh(ub)

GettySpec == GettyInit /\ [][GettyNext]_vars

\* ================================================================ claims
\* the last handler was plugin_run_hook(); HookOf is its hook point
HookRun == trace # <<>> /\ trace[Len(trace)].op = "service_step_all"
HookOf == trace[Len(trace)].no

\* positions in the trace of the events op of plugin object who
At(op, who) == {k \in 1..Len(trace) : trace[k].op = op /\ trace[k].who = who}
Ops(op) == {k \in 1..Len(trace) : trace[k].op = op}

\* C1: plugin_run_hook(no) invokes the callback of every registered plugin
\* that has a callback at no exactly once, and nothing of the plugins without
\* a callback at no.
C1_EveryCallbackOnce ==
    HookRun =>
      /\ \A i \in 1..Len(plugins) :
           Cardinality(At("hook_cb", plugins[i].obj))
             = (IF HookOf \in plugins[i].hook THEN 1 ELSE 0)
      /\ \A k \in Ops("hook_cb") :
           /\ trace[k].no = HookOf
           /\ \E i \in 1..Len(plugins) : plugins[i].obj = trace[k].who

C1_Witness ==
    /\ HookRun
    /\ Cardinality(Ops("hook_cb")) >= 2
    /\ \E i \in 1..Len(plugins) : HookOf \notin plugins[i].hook

\* position of an object in the load history
LoadPos(o) == CHOOSE k \in 1..Len(loaded) : loaded[k] = o

\* C2: two registered plugins with a callback at the hook point are called
\* in the order in which they were loaded: A's callback precedes B's iff A
\* was loaded before B.
C2_LoadOrder ==
    HookRun =>
      \A i, j \in 1..Len(plugins) :
        (i # j /\ HookOf \in plugins[i].hook /\ HookOf \in plugins[j].hook) =>
          \A a \in At("hook_cb", plugins[i].obj), b \in At("hook_cb", plugins[j].obj) :
            (a < b) <=> (LoadPos(plugins[i].obj) < LoadPos(plugins[j].obj))

\* two callbacks ran, and the later-loaded plugin stood first in the directory
C2_Witness ==
    /\ HookRun
    /\ \E a, b \in Ops("hook_cb") :
         /\ a < b
         /\ \E x, y \in 1..Len(dirents) :
              /\ x < y
              /\ dirents[x] = trace[b].who
              /\ dirents[y] = trace[a].who

\* the objects that ran plugin_register() in the last handler and were found
\* to be registered already
DupCalls == {k \in Ops("plugin_register") : trace[k].flag}

\* C3: the registry holds at most one record per (extension-trimmed) name;
\* registering a name that is already registered returns 0, leaves the
\* registry unchanged, and the first record stays the one plugin_find()
\* returns.
C3_OneRecordPerName ==
    /\ \A i, j \in 1..Len(plugins) :
         plugins[i].name = plugins[j].name => i = j
    /\ \A k \in DupCalls :
         /\ trace[k].ret = 0
         /\ trace[k].post = trace[k].pre
         /\ \A i \in 1..Len(plugins) : plugins[i].obj # trace[k].who

\* the part of C3 the code keeps: a registration that finds its name in the
\* registry returns 0 and changes nothing
C3_DuplicateIsNoOp ==
    \A k \in DupCalls :
      /\ trace[k].ret = 0
      /\ trace[k].post = trace[k].pre
      /\ \A i \in 1..Len(plugins) : plugins[i].obj # trace[k].who

C3_DuplicateSeen == DupCalls # {}

\* C4 as claimed: a hook condition is set only for hook points at or after
\* HOOK_BASEFS_UP.
C4_OnlyFromBasefsUp ==
    /\ \A c \in conds : HookNo(c) >= HOOK_BASEFS_UP
    /\ HookRun => (Ops("cond_set_oneshot") # {} => HookOf >= HOOK_BASEFS_UP)

\* C4 amended: plugin_run_hook() sets the condition of its hook point exactly
\* when the point is at or after HOOK_MOUNT_ERROR; no condition of an earlier
\* hook point is ever set.
C4_OnlyFromMountError ==
    /\ \A c \in conds : HookNo(c) >= HOOK_MOUNT_ERROR
    /\ HookRun =>
         /\ Ops("cond_set_oneshot") # {} <=> HookOf >= HOOK_MOUNT_ERROR
         /\ \A k \in Ops("cond_set_oneshot") :
              trace[k].no = HookOf /\ hook_cond(HookOf) \in conds

\* a hook before the gate ran after one behind it: only the later one is set
C4_Witness ==
    /\ HookRun
    /\ HookOf < HOOK_MOUNT_ERROR
    /\ Ops("cond_set_oneshot") = {}
    /\ conds = {hook_cond(HOOK_MOUNT_ERROR)}

IoRun == Ops("io_cb") # {}
IoWho == trace[CHOOSE k \in Ops("io_cb") : TRUE].who
IoOldFd == trace[CHOOSE k \in Ops("io_cb") : TRUE].fd
IoPlugin == plugins[CHOOSE i \in 1..Len(plugins) : plugins[i].obj = IoWho]

\* descriptors the event loop watches
Watched == {watcher[o].fd : o \in {x \in ObjIds : watcher[x].active}}

\* C6: on dispatch the watcher is stopped before the callback is invoked,
\* is stopped while the callback runs, and is set again only after the
\* callback has returned; the callback runs once per dispatch.
C6_StoppedDuringCallback ==
    IoRun =>
      /\ Cardinality(Ops("io_cb")) = 1
      /\ \A c \in Ops("io_cb") :
           /\ ~trace[c].flag
           /\ \E k \in At("uev_io_stop", IoWho) : k < c
           /\ \A k \in At("uev_io_set", IoWho) : c < k

C6_Witness ==
    /\ IoRun
    /\ At("uev_io_stop", IoWho) # {}
    /\ At("uev_io_set", IoWho) # {}

\* the callback left another open descriptor in io.fd than it was called with
IoReplaced ==
    /\ IoRun
    /\ IoPlugin.io.fd # IoOldFd
    /\ IoPlugin.io.fd \in fds

\* C7: when the callback replaces io.fd, the watcher afterwards watches the
\* new descriptor, nothing watches the old one, and readiness of the new
\* descriptor passes the test of generic_io_cb() for the same plugin.
C7_WatchesReplacement ==
    IoReplaced =>
      /\ watcher[IoWho].active
      /\ watcher[IoWho].fd = IoPlugin.io.fd
      /\ IoOldFd \notin Watched
      /\ is_io_plugin(IoPlugin) /\ IoPlugin.io.fd = watcher[IoWho].fd

\* a second dispatch, for a descriptor that did not exist at plugin_init()
C7_Witness ==
    /\ IoReplaced
    /\ steps = 2
    /\ IoOldFd >= 3 + Cardinality({i \in 1..Len(plugins) : plugins[i].io.cb})

\* C8 as claimed: after every dispatch that invoked the callback the watcher
\* is armed again.
C8_AlwaysRearmed == IoRun => watcher[IoWho].active

\* C8 amended: after every dispatch that invoked the callback, uev_io_set()
\* is called with the descriptor the callback left in io.fd, and the watcher
\* is armed again exactly if that descriptor is open; a callback that failed
\* but kept its descriptor is watched again.
C8_RearmedIfOpen ==
    IoRun =>
      /\ \E k \in At("uev_io_set", IoWho) : trace[k].fd = IoPlugin.io.fd
      /\ watcher[IoWho].active <=> IoPlugin.io.fd \in fds
      /\ watcher[IoWho].active => watcher[IoWho].fd = IoPlugin.io.fd
      /\ (\E c \in Ops("io_cb") : trace[c].ret = 1) => watcher[IoWho].active

\* the callback failed and the watcher is armed again
C8_Witness ==
    /\ IoRun
    /\ \E c \in Ops("io_cb") : trace[c].ret = 1
    /\ watcher[IoWho].active

\* the registrations of the last handler during which load_one() failed for a
\* listed dependency
DepFailed ==
    {k \in Ops("plugin_register") :
       \E j \in 1..(k - 1), d \in 1..Len(ObjOf(trace[k].who).depends) :
         /\ trace[j].op = "load_one"
         /\ trace[j].ret # 0
         /\ trace[j].name = ObjOf(trace[k].who).depends[d]}

\* C9: a plugin is inserted into the registry although load_one() failed for
\* one of its dependencies.
C9_RegisteredDespiteDependency ==
    \A k \in DepFailed :
      /\ trace[k].ret = 0
      /\ \E i \in 1..Len(plugins) : plugins[i].obj = trace[k].who
      /\ \E i \in 1..Len(trace[k].post) : trace[k].post[i] = trace[k].who

C9_Witness == DepFailed # {}

\* entries of the directory that readdir() has returned so far
Seen == {dirents[k] : k \in 1..dirpos}

\* entries for which dlopen() fails
Unloadable == {e \in Seen : e \notin ObjIds /\ e # "."}

\* C10: a failed load is counted and nothing else: every other entry of the
\* directory that holds a plugin has, once load_plugins() has passed it, a
\* record of its name in the registry, and all entries are visited.
C10_OthersStillLoaded ==
    /\ fail >= Cardinality(Unloadable)
    /\ fail <= dirpos
    /\ (fail > 0 /\ pc \in {"readdir", "running"}) =>
         /\ \A e \in Seen \cap ObjIds :
              ObjOf(e).ctor =>
                \E i \in 1..Len(plugins) :
                  plugins[i].name = RegName([obj |-> e, name |-> ObjOf(e).name])
         /\ pc = "running" => dirpos = Len(dirents)

\* a plugin was registered from an entry behind the one that failed
C10_Witness ==
    /\ pc = "running"
    /\ fail = 1
    /\ \E x, y \in 1..Len(dirents) :
         /\ x < y
         /\ dirents[x] \in Unloadable
         /\ \E i \in 1..Len(plugins) : plugins[i].obj = dirents[y]

\* C11 as claimed: when plugin_init() has returned after at least one load
\* failed, every registered I/O plugin has its descriptor registered with
\* the event loop.
C11_IoPluginsWatched ==
    (pc = "running" /\ steps = 0 /\ fail > 0) =>
      \A i \in 1..Len(plugins) :
        is_io_plugin(plugins[i]) =>
          /\ watcher[plugins[i].obj].active
          /\ watcher[plugins[i].obj].fd = plugins[i].io.fd

\* the registry before registration k of the last handler, names only
PreList(k) ==
    [i \in 1..Len(trace[k].pre) |->
       [name |-> RegName([obj |-> trace[k].pre[i],
                          name |-> ObjOf(trace[k].pre[i]).name])]]

\* index of object o in a sequence of objects, 0 if it is not in it
PosIn(objs, o) ==
    IF \E i \in 1..Len(objs) : objs[i] = o
    THEN CHOOSE i \in 1..Len(objs) : objs[i] = o
    ELSE 0

\* the registered pairs <<i, j>>: plugins[j] is the object in the file
\* "<dependency>.so" for a dependency of plugins[i]
DepPairs ==
    {<<i, j>> \in (1..Len(plugins)) \X (1..Len(plugins)) :
       \E d \in 1..Len(plugins[i].depends) :
         d_name[plugins[j].obj] = plugins[i].depends[d] \o S_so}

\* C12: a dependency D that is not registered when P registers is loaded
\* during P's registration; when that load registers D, D precedes P in the
\* registry, and at every hook point where both have a callback D's callback
\* runs before P's.
C12_DependencyFirst ==
    /\ \A k \in Ops("plugin_register") :
         ~trace[k].flag =>
           \A d \in 1..Len(ObjOf(trace[k].who).depends) :
             LET dep == ObjOf(trace[k].who).depends[d]
             IN  plugin_find(PreList(k), plugpath, dep) = 0 =>
                   \E j \in 1..(k - 1) :
                     /\ trace[j].op = "load_one"
                     /\ trace[j].name = dep
                     /\ (trace[j].ret = 0 /\ PosIn(trace[k].pre, trace[j].who) = 0
                           /\ PosIn(trace[k].post, trace[j].who) # 0) =>
                          PosIn(trace[k].post, trace[j].who)
                            < PosIn(trace[k].post, trace[k].who)
    /\ \A pr \in DepPairs :
         /\ pr[2] < pr[1]
         /\ HookRun =>
              \A a \in At("hook_cb", plugins[pr[2]].obj),
                 b \in At("hook_cb", plugins[pr[1]].obj) : a < b

\* pidfile stood before netlink in the directory, both ran at SVC_RECONF
C12_Witness ==
    /\ HookRun
    /\ HookOf = HOOK_SVC_RECONF
    /\ PosIn(dirents, "pid.so") # 0
    /\ PosIn(dirents, "pid.so") < PosIn(dirents, "net.so")
    /\ At("hook_cb", "net.so") # {}
    /\ At("hook_cb", "pid.so") # {}

\* C13 as claimed: a record that was inserted into the registry is in the
\* registry ever after, also after plugin_exit().
C13_RecordsStay ==
    \A k \in 1..Len(loaded) :
      \E i \in 1..Len(plugins) : plugins[i].obj = loaded[k]

\* the events of the last pidfile_callback() that concern a file that is the
\* pidfile of a service, with one of the bits of want in the mask
PidfileEvents(want) ==
    {k \in Ops("event") :
       /\ trace[k].mask \cap want # {}
       /\ "IN_ISDIR" \notin trace[k].mask
       /\ IsPidfileName(trace[k].name)
       /\ svc_find_by_pidfile(trace[k].name) # ""}

EvSvc(k) == svc_find_by_pidfile(trace[k].name)

\* C14: an event with CREATE, ATTRIB, MODIFY or MOVED_TO on the pidfile of a
\* registered service sets the pid condition of that service: cond_set()
\* follows the event and the condition is ON when the callback has returned.
C14_PidfileSetsCondition ==
    \A k \in PidfileEvents(IN_SET) :
      /\ \E j \in At("cond_set", EvSvc(k)) : k < j
      /\ mkcond(EvSvc(k)) \in conds

\* a pidfile in a subdirectory was written, its condition is ON
C14_Witness ==
    /\ PidfileEvents({"IN_MODIFY", "IN_ATTRIB"}) # {}
    /\ PidfileEvents({"IN_CREATE", "IN_MOVED_TO"}) # {}
    /\ "pid/foo" \in conds

\* C15 as claimed: after a DELETE event for the pidfile of a registered
\* service (and no later event for it in the same read) the pid condition
\* of the service is not ON.
C15_DeleteClearsCondition ==
    \A k \in PidfileEvents({"IN_DELETE"}) :
      (\A j \in PidfileEvents(IN_SET) : EvSvc(j) = EvSvc(k) => j < k) =>
        mkcond(EvSvc(k)) \notin conds

\* number of path components below the first "run/" of a path, 0 for a path
\* without "run/"
Levels(path) ==
    LET at == strstr(path, S_run_slash)
    IN  IF at = 0 THEN 0
        ELSE 1 + Cardinality({i \in (at + 4)..Len(path) : path[i] = "/"})

\* C16: pidfile_add_path() hands the run directory and a directory one level
\* below run/ to iwatch_add(), which adds the watch for an existing
\* directory; for a path two or more levels below run/ it returns -1 and the
\* watch list is unchanged.
C16_OneLevelOnly ==
    \A k \in Ops("pidfile_add_path") :
      /\ (Levels(trace[k].name) <= 1 /\ trace[k].flag) =>
           /\ trace[k].ret = 0
           /\ trace[k].post = trace[k].pre \cup {trace[k].name}
      /\ Levels(trace[k].name) >= 2 =>
           /\ trace[k].ret = -1
           /\ trace[k].post = trace[k].pre

\* a directory two levels below run/ was rejected while its parent, one
\* level below run/, is watched together with the run directory
C16_Witness ==
    /\ \E k \in Ops("pidfile_add_path") :
         /\ Levels(trace[k].name) = 2
         /\ trace[k].flag
         /\ trace[k].ret = -1
    /\ \E d \in iw : Levels(d) = 1
    /\ P_run \in iw

\* C17 as claimed: a new subdirectory that is not yet watched is added to
\* the watch set, and every pidfile found in it that belongs to a registered
\* service has that service's pid condition set.
C17_NewDirRescanned ==
    /\ \A k \in Ops("pidfile_add_path") :
         (Levels(trace[k].name) = 1 /\ trace[k].flag) => trace[k].name \in trace[k].post
    /\ \A k \in Ops("scan_found") :
         (IsPidfileName(trace[k].name) /\ svc_find_by_pidfile(trace[k].name) # "") =>
           /\ \E j \in At("cond_set", svc_find_by_pidfile(trace[k].name)) : k < j
           /\ mkcond(svc_find_by_pidfile(trace[k].name)) \in conds

\* the last handler was pidfile_reconf()
ReconfRun ==
    /\ trace # <<>>
    /\ trace[Len(trace)].op = "service_step_all"
    /\ trace[Len(trace)].no = HOOK_SVC_RECONF

\* C18: after pidfile_reconf() every service that is running, unchanged and
\* not starting has its pid condition ON.
C18_Reasserted ==
    ReconfRun =>
      \A s \in SvcIds :
        (svc[s].state = "running" /\ ~svc[s].changed /\ ~svc[s].starting) =>
          mkcond(s) \in conds

\* the reload set the condition of a service without pidfile event and left
\* the other service alone
C18_Witness ==
    /\ ReconfRun
    /\ At("cond_set_path", "bar") # {}
    /\ "pid/bar" \in conds
    /\ svc["foo"].state = "running"
    /\ "pid/foo" \notin conds

\* C19: for a forking service the pid is replaced by what pid_file_read()
\* returned before cond_set() is called, and nothing happens in between.
C19_PidBeforeCondition ==
    \A k \in Ops("cond_set") :
      SvcOf(trace[k].who).forking =>
        /\ k > 1
        /\ trace[k - 1].op = "svc_pid"
        /\ trace[k - 1].who = trace[k].who
        /\ (\A j \in At("svc_pid", trace[k].who) : j < k) =>
             svc[trace[k].who].pid = trace[k - 1].ret

\* a running forking service adopted the pid its daemon wrote
C19_Witness ==
    /\ At("cond_set", "foo") # {}
    /\ svc["foo"].state = "running"
    /\ svc["foo"].pid = DaemonPid
    /\ "pid/foo" \in conds

\* C20 as claimed: a record has a pid exactly when it is running, stopping
\* or halting, and the pid it has then is a valid one.
C20_PidIffActive ==
    \A s \in SvcIds :
      /\ svc[s].pid # 0 <=> svc[s].state \in {"running", "stopping", "halting"}
      /\ svc[s].state \in {"running", "stopping", "halting"} => svc[s].pid > 0

\* ------------------------------------------------------------ TTY claims
\* the last handler was the TTY operation op
TtyRun(op) == trace # <<>> /\ trace[1].op = op

\* the list the last TTY operation found
TtyPre == trace[1].pre

\* positions in the trace of the events op on the record named who
TtyAt(op, who) == {k \in 1..Len(trace) : trace[k].op = op /\ trace[k].who = who}

\* C21: stopping a TTY whose getty runs sends SIGKILL at once (never SIGTERM
\* first), reaps that process and sets pid = 0; stopping a TTY with pid = 0
\* sends no signal and changes nothing.  The stops looked at are those of
\* tty_runlevel() on the records the runlevel excludes.
C21_StopKillsReapsClears ==
    /\ \A k \in 1..Len(trace) :
           trace[k].op = "kill" /\ trace[k].who # NULL =>
               /\ trace[k].sig = SIGKILL
               /\ trace[k].pid # 0
               /\ k < Len(trace)
               /\ trace[k + 1].op = "waitpid"
               /\ trace[k + 1].pid = trace[k].pid
    /\ TtyRun("tty_runlevel") =>
           \A i \in 1..Len(TtyPre) :
               ~tty_enabled(TtyPre[i], runlevel) =>
                   IF TtyPre[i].pid = 0
                   THEN /\ TtyAt("kill", TtyPre[i].name) = {}
                        /\ tty_list[i] = TtyPre[i]
                   ELSE /\ \E k \in TtyAt("kill", TtyPre[i].name) :
                               /\ TtyAt("kill", TtyPre[i].name) = {k}
                               /\ trace[k].pid = TtyPre[i].pid
                        /\ tty_list[i] = [TtyPre[i] EXCEPT !.pid = 0]

C21_Witness ==
    /\ TtyRun("tty_runlevel")
    /\ \E i \in 1..Len(TtyPre) :
           /\ ~tty_enabled(TtyPre[i], runlevel)
           /\ TtyPre[i].pid # 0
           /\ tty_list[i].pid = 0
           /\ TtyAt("waitpid", TtyPre[i].name) # {}

\* the record tty_respawn() was called for (0 when the pid is of no record),
\* the value it returned, and whether it started a getty for that record
RespawnIdx == tty_find_by_pid(TtyPre, trace[1].pid)
RespawnRet == trace[Len(trace)].ret
RespawnStarted == TtyAt("run_getty", TtyPre[RespawnIdx].name) # {}

\* the device of the record is a terminal that can be opened
TtyValid(t) == canonicalize(t.name, devs) # NULL /\ tty_exist(canonicalize(t.name, devs), devs) = 0

\* what tty_respawn() leaves behind whether or not a getty was started: the
\* other records untouched, the record's pid 0 or that of the new getty
RespawnFrame ==
    /\ RespawnRet = 1
    /\ Len(tty_list) = Len(TtyPre)
    /\ \A j \in 1..Len(TtyPre) : j # RespawnIdx => tty_list[j] = TtyPre[j]
    /\ tty_list[RespawnIdx].pid =
           IF RespawnStarted
           THEN trace[CHOOSE k \in TtyAt("run_getty", TtyPre[RespawnIdx].name) : TRUE].pid
           ELSE 0
    /\ tty_list[RespawnIdx].pid # trace[1].pid

\* C22 as stated: tty_respawn() of the pid of a TTY record clears the pid,
\* starts a new getty if and only if the TTY is enabled in the current
\* runlevel, and returns 1; for a pid of no TTY record no record changes.
C22_StartedIffEnabled ==
    TtyRun("tty_respawn") =>
        IF RespawnIdx = 0 THEN tty_list = TtyPre
        ELSE /\ RespawnFrame
             /\ RespawnStarted <=> tty_enabled(TtyPre[RespawnIdx], runlevel)

\* C22 amended: the new getty is started if and only if the TTY is enabled
\* in the current runlevel and its device is a terminal that can be opened;
\* the pid is cleared and 1 returned in every case, and for a pid of no TTY
\* record no record changes.
C22_StartedIffEnabledAndValid ==
    TtyRun("tty_respawn") =>
        IF RespawnIdx = 0 THEN tty_list = TtyPre
        ELSE /\ RespawnFrame
             /\ RespawnStarted <=> /\ tty_enabled(TtyPre[RespawnIdx], runlevel)
                                   /\ TtyValid(TtyPre[RespawnIdx])

C22_Witness ==
    /\ TtyRun("tty_respawn")
    /\ RespawnIdx # 0
    /\ RespawnStarted
    /\ tty_list[RespawnIdx].pid \notin {0, trace[1].pid}

\* every record registered again from the line it was registered from, the
\* file of which did not change
RECURSIVE ReRegister(_, _)
ReRegister(ts, k) ==
    IF k > Len(tty_list) THEN ts
    ELSE ReRegister(tty_register(ts, hist.conf[tty_list[k].name], FALSE, devs), k + 1)

\* one more reload of the unchanged configuration from the present state:
\* tty_mark(), the registrations, tty_reload(NULL)
ReloadUnchanged ==
    tty_reload(ReRegister([TtyState EXCEPT !.list = tty_mark(tty_list)], 1),
               NULL, runlevel, devs)

\* the kills of gettys in a trace
GettyKills(tr) == {k \in 1..Len(tr) : tr[k].op = "kill" /\ tr[k].who # NULL}

\* C23: a reload of an unchanged configuration (tty_mark, every TTY
\* registered again from its unchanged line, tty_reload(NULL)) kills no
\* getty, every TTY that had a getty keeps the same pid, and a second such
\* reload leaves the list and the pids as the first left them.
C23_UnchangedReloadKeepsGettys ==
    hist.done =>
        /\ TtyRun("tty_reload")
        /\ GettyKills(trace) = {}
        /\ Len(tty_list) = Len(hist.snap)
        /\ \A i \in 1..Len(hist.snap) :
               /\ tty_list[i].name = hist.snap[i].name
               /\ hist.snap[i].pid # 0 => tty_list[i].pid = hist.snap[i].pid
        /\ ReloadUnchanged.list = tty_list
        /\ GettyKills(ReloadUnchanged.trace) = {}

C23_Witness ==
    /\ hist.done
    /\ \E i \in 1..Len(hist.snap) :
           /\ hist.snap[i].pid # 0
           /\ tty_list[i].pid = hist.snap[i].pid
           /\ tty_enabled(tty_list[i], runlevel)

\* the device name tty_register() registered (NULL when it failed) and the
\* record of that name in the list it found (0 when there was none)
RegisteredDev == trace[2].who
RegisteredOld == tty_find(TtyPre, RegisteredDev)

\* C24: tty_list holds at most one record per canonical device name;
\* registering a device that is listed already, under whatever spelling,
\* updates that record in place and keeps its getty pid, and registering a
\* new device adds one record; all other records stay as they are.
C24_OneRecordPerDevice ==
    /\ \A i, j \in 1..Len(tty_list) :
           tty_list[i].name = tty_list[j].name => i = j
    /\ \A i \in 1..Len(tty_list) :
           canonicalize(tty_list[i].name, devs) \in {NULL, tty_list[i].name}
    /\ TtyRun("tty_register") /\ RegisteredDev # NULL =>
           IF RegisteredOld # 0
           THEN /\ Len(tty_list) = Len(TtyPre)
                /\ tty_list[RegisteredOld].name = RegisteredDev
                /\ tty_list[RegisteredOld].pid = TtyPre[RegisteredOld].pid
                /\ \A j \in 1..Len(TtyPre) :
                       j # RegisteredOld => tty_list[j] = TtyPre[j]
           ELSE /\ Len(tty_list) = Len(TtyPre) + 1
                /\ tty_list[1].name = RegisteredDev
                /\ tty_list[1].pid = 0
                /\ \A j \in 1..Len(TtyPre) : tty_list[j + 1] = TtyPre[j]

C24_Witness ==
    /\ TtyRun("tty_register")
    /\ RegisteredDev # NULL
    /\ RegisteredOld # 0
    /\ TtyPre[RegisteredOld].pid # 0
    /\ tty_list[RegisteredOld].pid = TtyPre[RegisteredOld].pid
    /\ tty_list[RegisteredOld].runlevels # TtyPre[RegisteredOld].runlevels
    /\ Len(tty_list) = 2

\* the last handler was tty_reload(NULL), the end of a reload
FullReload == TtyRun("tty_reload") /\ trace[1].who = NULL

\* C25: a record is removed only by the sweep of a reload, only if it was
\* not registered again since tty_mark(), and only after its getty, if it
\* had one, was killed and reaped, so that its pid is 0 when it is removed;
\* the records that were registered again are all still listed afterwards.
C25_SweepRemovesOnlyStale ==
    /\ phase = "parsing" =>
           \A i \in 1..Len(tty_list) :
               tty_list[i].dirty = -1 <=> tty_list[i].name \in hist.marked
    /\ \A k \in 1..Len(trace) :
           trace[k].op = "tty_unregister" =>
               /\ FullReload
               /\ trace[k].who \in hist.marked
               /\ trace[k].ret = -1
               /\ trace[k].pid = 0
               /\ tty_find(tty_list, trace[k].who) = 0
               /\ LET old == TtyPre[tty_find(TtyPre, trace[k].who)]
                  IN  old.pid # 0 =>
                          \E a, b \in 1..k :
                              /\ a < b
                              /\ b < k
                              /\ trace[a] = TtyEv("kill", old.name, old.pid, SIGKILL, 0)
                              /\ trace[b] = TtyEv("waitpid", old.name, old.pid, "", 0)
    /\ FullReload =>
           \A i \in 1..Len(TtyPre) :
               TtyPre[i].name \notin hist.marked =>
                   /\ tty_find(tty_list, TtyPre[i].name) # 0
                   /\ TtyAt("tty_unregister", TtyPre[i].name) = {}

C25_Witness ==
    /\ FullReload
    /\ Len(tty_list) = 1
    /\ Len(TtyPre) = 2
    /\ \E i \in 1..2 :
           /\ TtyPre[i].pid # 0
           /\ TtyPre[i].name \in hist.marked
           /\ TtyAt("tty_unregister", TtyPre[i].name) # {}
           /\ TtyAt("waitpid", TtyPre[i].name) # {}
    /\ \E i \in 1..2 : TtyPre[i].dirty = 1 /\ TtyPre[i].name = tty_list[1].name

\* ------------------------------------------------------ plugin_find claim
\* the ways to name the plugin registered as name: bare, with the .so
\* extension, with the plugin path, and with both
Spellings(name) ==
    {name, name \o S_so, PLUGIN_PATH \o S_slash \o name,
     PLUGIN_PATH \o S_slash \o name \o S_so}

\* C26: plugin_find() returns the registered plugin when its name is given
\* with or without the .so extension and with or without the plugin path,
\* and returns NULL only for a name that no plugin is registered under.
C26_FindsEverySpelling ==
    pc = "running" =>
        /\ \A i \in 1..Len(plugins) :
               \A sp \in Spellings(plugins[i].name) :
                   /\ plugin_find(plugins, plugpath, sp) # 0
                   /\ plugins[plugin_find(plugins, plugpath, sp)].name = plugins[i].name
        /\ \A o \in ObjIds :
               LET name == RegName([obj |-> o, name |-> ObjOf(o).name])
               IN  (\A i \in 1..Len(plugins) : plugins[i].name # name) =>
                       \A sp \in Spellings(name) :
                           plugin_find(plugins, plugpath, sp) = 0

\* C27: after tty_runlevel() every TTY whose runlevels exclude the current
\* runlevel has no getty (pid = 0), and every TTY whose runlevels include it
\* and whose device is a terminal that can be opened has one (pid # 0, the
\* spawn succeeding); the list holds the same records in the same order.
C27_RunlevelSetsGettys ==
    TtyRun("tty_runlevel") =>
        /\ Len(tty_list) = Len(TtyPre)
        /\ \A i \in 1..Len(tty_list) :
               /\ tty_list[i].name = TtyPre[i].name
               /\ ~tty_enabled(tty_list[i], runlevel) => tty_list[i].pid = 0
               /\ tty_enabled(tty_list[i], runlevel) /\ TtyValid(tty_list[i]) =>
                      tty_list[i].pid # 0

C27_Witness ==
    /\ TtyRun("tty_runlevel")
    /\ \E i \in 1..Len(tty_list) :
           /\ ~tty_enabled(tty_list[i], runlevel)
           /\ TtyPre[i].pid # 0
           /\ tty_list[i].pid = 0
    /\ \E i \in 1..Len(tty_list) :
           /\ tty_enabled(tty_list[i], runlevel)
           /\ TtyValid(tty_list[i])
           /\ TtyPre[i].pid = 0
           /\ tty_list[i].pid # 0

\* the index after the reload of the record named as record i before it
Kept(i) == tty_find(tty_list, TtyPre[i].name)

\* what a full reload does to record i of the list it found, when that
\* record was registered from a changed file, whether or not a getty is
\* started: it stays listed, and a getty it had was killed and reaped
RestartFrame(i) ==
    /\ Kept(i) # 0
    /\ TtyPre[i].pid # 0 =>
           \E k \in TtyAt("kill", TtyPre[i].name) :
               /\ trace[k].pid = TtyPre[i].pid
               /\ trace[k + 1] = TtyEv("waitpid", TtyPre[i].name, TtyPre[i].pid, "", 0)
    /\ tty_list[Kept(i)].pid \notin {TtyPre[i].pid} \ {0}

\* C28 as stated: after tty_reload(NULL) every TTY registered from a changed
\* file (dirty = 1) has had its old getty killed and, if it is enabled in the
\* current runlevel, a new getty started; its record is still listed; and
\* every record has dirty = 0.
C28_DirtyRestartedIfEnabled ==
    FullReload =>
        /\ \A j \in 1..Len(tty_list) : tty_list[j].dirty = 0
        /\ \A i \in 1..Len(TtyPre) :
               TtyPre[i].dirty = 1 =>
                   /\ RestartFrame(i)
                   /\ tty_enabled(TtyPre[i], runlevel) =>
                          /\ TtyAt("run_getty", TtyPre[i].name) # {}
                          /\ tty_list[Kept(i)].pid # 0

\* C28 amended: the new getty is started when the TTY is enabled in the
\* current runlevel and its device is a terminal that can be opened, and
\* otherwise the TTY is left without a getty; the rest as stated.
C28_DirtyRestartedIfEnabledAndValid ==
    FullReload =>
        /\ \A j \in 1..Len(tty_list) : tty_list[j].dirty = 0
        /\ \A i \in 1..Len(TtyPre) :
               TtyPre[i].dirty = 1 =>
                   /\ RestartFrame(i)
                   /\ IF tty_enabled(TtyPre[i], runlevel) /\ TtyValid(TtyPre[i])
                      THEN /\ TtyAt("run_getty", TtyPre[i].name) # {}
                           /\ tty_list[Kept(i)].pid # 0
                      ELSE /\ TtyAt("run_getty", TtyPre[i].name) = {}
                           /\ tty_list[Kept(i)].pid = 0

C28_Witness ==
    /\ FullReload
    /\ \E i \in 1..Len(TtyPre) :
           /\ TtyPre[i].dirty = 1
           /\ TtyPre[i].pid # 0
           /\ tty_enabled(TtyPre[i], runlevel)
           /\ Kept(i) # 0
           /\ tty_list[Kept(i)].pid \notin {0, TtyPre[i].pid}
           /\ tty_list[Kept(i)].dirty = 0

\* ------------------------------------------- pidfile plugin, frame claims
\* the service is running, was not changed by the reload and is not starting
Reassertable(s) ==
    svc[s].state = "running" /\ ~svc[s].changed /\ ~svc[s].starting

\* the trace of pidfile_reconf(): conditions set for reassertable services,
\* each once, and then service_step_all() once, as the last call
ReconfTrace ==
    /\ Ops("service_step_all") = {Len(trace)}
    /\ \A k \in 1..Len(trace) - 1 :
           /\ trace[k].op = "cond_set_path"
           /\ Reassertable(trace[k].who)
           /\ At("cond_set_path", trace[k].who) = {k}

StrangerEvent(e) ==
    /\ e.op = "event"
    /\ "IN_ISDIR" \notin e.mask
    /\ ~IsPidfileName(e.name) \/ svc_find_by_pidfile(e.name) = ""

\* a trace of pidfile_callback() in which read() returned nothing, or only
\* events on such files
OnlyStrangers(tr) ==
    /\ tr # <<>>
    /\ \A k \in 1..Len(tr) : tr[k].op = "read" \/ StrangerEvent(tr[k])

\* C30: a pidfile watcher event on a file whose name matches neither *.pid
\* nor pid, or on a matching file that is the pidfile of no service, has no
\* effect: nothing is done between it and the next event, and a callback
\* that saw only such events, or whose read() returned nothing, leaves every
\* condition and every service record as it was.
C30_StrangersChangeNothing ==
    [][/\ OnlyStrangers(trace') => svc' = svc /\ conds' = conds /\ iw' = iw
       /\ \A k \in 1..Len(trace') :
              StrangerEvent(trace'[k]) =>
                  k = Len(trace') \/ trace'[k + 1].op = "event"]_vars

C30_Witness ==
    /\ OnlyStrangers(trace)
    /\ \E k \in 1..Len(trace) :
           /\ trace[k].op = "event"
           /\ trace[k].flag
           /\ trace[k].mask \cap IN_SET # {}
           /\ IsPidfileName(trace[k].name)
           /\ svc_find_by_pidfile(trace[k].name) = ""
    /\ \E s \in SvcIds : svc[s].starting

\* C31: with the fallback shell built in, after every tty_runlevel() a
\* fallback shell is alive when no TTY has a getty, and none is alive when
\* some TTY has one; whatever runlevel changes, reloads and exits of
\* children (the fallback shell among them) came before.
C31_ShellIffNoTty ==
    TtyRun("tty_runlevel") =>
        /\ tty_num_active(tty_list) = 0 => shell # 0
        /\ tty_num_active(tty_list) > 0 => shell = 0

\* the pid in the record named w just before entry k of the trace of a TTY
\* operation: the pid the operation found, until a getty was started for
\* the record (run_getty) or its getty was reaped (waitpid, utmp_set_dead)
PidBefore(k, w) ==
    LET evs == {j \in 2..(k - 1) :
                   /\ trace[j].who = w
                   /\ trace[j].op \in {"run_getty", "waitpid", "utmp_set_dead"}}
        i == tty_find(TtyPre, w)
    IN  IF evs = {} THEN (IF i = 0 THEN 0 ELSE TtyPre[i].pid)
        ELSE LET j == CHOOSE j \in evs : \A h \in evs : h <= j
             IN  IF trace[j].op = "run_getty" THEN trace[j].pid ELSE 0

\* C32: a TTY record has at most one getty at any time: a getty is started
\* only for a record whose pid is 0 at that moment, the pid of a record
\* changes only when its getty was reaped or a getty is started for it, and
\* no two records, nor a record and the fallback shell, hold the same pid.
C32_OneGettyPerRecord ==
    /\ trace # <<>> =>
           /\ \A k \in 2..Len(trace) :
                  trace[k].op = "run_getty" =>
                      /\ PidBefore(k, trace[k].who) = 0
                      /\ trace[k].pid \notin {0, shell}
                      /\ \A i \in 1..Len(TtyPre) : TtyPre[i].pid # trace[k].pid
           /\ \A i \in 1..Len(tty_list) :
                  tty_list[i].pid = PidBefore(Len(trace) + 1, tty_list[i].name)
    /\ \A i, j \in 1..Len(tty_list) :
           tty_list[i].pid # 0 /\ tty_list[i].pid = tty_list[j].pid => i = j
    /\ \A i \in 1..Len(tty_list) : tty_list[i].pid # 0 => tty_list[i].pid # shell

\* tty_runlevel() and tty_reload(NULL) reached tty_start() for an enabled
\* TTY on a valid terminal whose getty was running, next to a TTY for which
\* a getty was started: the running getty was left alone
C32_Witness ==
    /\ TtyRun("tty_runlevel") \/ (TtyRun("tty_reload") /\ trace[1].who = NULL)
    /\ \E k \in 2..Len(trace) : trace[k].op = "run_getty"
    /\ \E i \in 1..Len(TtyPre) :
           /\ TtyPre[i].pid # 0
           /\ tty_enabled(TtyPre[i], runlevel)
           /\ TtyValid(TtyPre[i])
           /\ TtyAt("run_getty", TtyPre[i].name) = {}
           /\ TtyAt("kill", TtyPre[i].name) = {}
           /\ \E j \in 1..Len(tty_list) :
                  /\ tty_list[j].name = TtyPre[i].name
                  /\ tty_list[j].pid = TtyPre[i].pid

\* the objects of the plugin directory that left no record in the registry
Unregistered ==
    {id \in ObjIds :
        /\ \E k \in 1..Len(dirents) : dirents[k] = id
        /\ \A i \in 1..Len(plugins) : plugins[i].obj # id}

\* C33: after plugin_init() the handle of every plugin is the handle of the
\* dlopen() of its own shared object, whatever other objects were loaded
\* after it (one loaded before as a dependency, one with a duplicate plugin
\* name, one that registers nothing); an object that registered no plugin
\* is unloaded and counted as a load failure.
C33_HandleIsOwn ==
    pc = "running" /\ dir_ok =>
        /\ \A i \in 1..Len(plugins) : plugins[i].handle = plugins[i].obj
        /\ \A id \in Unregistered : dl[id] = 0
        /\ fail >= Cardinality(Unregistered)

\* C34: get_logname() never stores outside the len bytes of the name
\* buffer it is given (len = sizeof(name) = logname_len + 1), however long
\* the line typed before the newline is.
C34_StoresInsideName ==
    pc \in {"getty", "readch", "login", "crashed"} =>
        \A k \in 1..Len(trace) :
            trace[k].op = "store" => trace[k].off \in 0..logname_len

====
